---- MODULE Spec2Model ----
(*****************************************************************************)
(* A model of TP3-Serverless-Computing: the function execution runtime       *)
(* (src/runtime/runtime-app.py) with its configuration resolution, handler   *)
(* loading, and poll / detect / decode / execute / publish / sleep loop; the *)
(* dashboard (src/dashboard/app.py), one run of main() being a PING, then a  *)
(* GET and the rendering of what was read; and the seeding script            *)
(* (src/dashboard/seed_mock_redis.py).  They run against one store, a        *)
(* handler file and a clock.                                                 *)
(*                                                                           *)
(* Python values are tagged records.  Text (str) and raw store values        *)
(* (bytes) are sequences of one-character strings; the token "0xFF" stands   *)
(* for a byte that is not valid UTF-8.  An int is an integer.  A float is an *)
(* IEEE 754 double: a sign, a significand of at most 53 bits kept as a       *)
(* sequence of limbs, and a binary exponent, with the arithmetic, the        *)
(* parsing and the repr of the doubles.  The JSON escapes \b, \f and \u are  *)
(* outside the modelled value domain: no input of the model contains them.   *)
(*****************************************************************************)
EXTENDS Integers, Sequences, FiniteSets, TLC

----------------------------------------------------------------------------
(* Python values *)

PyNone == [t |-> "None"]

PyBool(b) == [t |-> "bool", b |-> b]

PyInt(i) == [t |-> "int", i |-> i]

PyStr(s) == [t |-> "str", s |-> s]

PyBytes(y) == [t |-> "bytes", y |-> y]

PyList(e) == [t |-> "list", e |-> e]

PyDict(d) == [t |-> "dict", d |-> d]

PySet(m) == [t |-> "set", m |-> m]

\* isinstance(v, dict)
IsDict(v) == v.t = "dict"

----------------------------------------------------------------------------
(* Characters *)

QUOTE == "\""

BACKSLASH == "\\"

Whitespace == {" ", "\t", "\n", "\r"}

Digits == <<"0", "1", "2", "3", "4", "5", "6", "7", "8", "9">>

DigitSet == {Digits[k] : k \in 1..10}

DigitVal(c) == (CHOOSE k \in 1..10 : Digits[k] = c) - 1

InvalidByte == "0xFF"

RECURSIVE NatToChars(_)
NatToChars(n) ==
    IF n < 10 THEN <<Digits[n + 1]>>
    ELSE NatToChars(n \div 10) \o <<Digits[(n % 10) + 1]>>

\* str(i) for an int
IntToChars(i) == IF i < 0 THEN <<"-">> \o NatToChars(-i) ELSE NatToChars(i)

\* s[i:i+len(w)] == w
StartsWithAt(s, i, w) ==
    /\ i + Len(w) - 1 <= Len(s)
    /\ \A k \in 1..Len(w) : s[i + k - 1] = w[k]

----------------------------------------------------------------------------
(* float: IEEE 754 binary64 with round-half-to-even, as CPython computes   *)
(* it.  A natural number of any size is the sequence of its digits in base *)
(* 2^15, least significant first, with no zero as its last digit; <<>> is  *)
(* 0.  A finite float is (-1)^neg * m * 2^e with m such a number, m odd or *)
(* 0; bits are counted from 1, the least significant.  Every digit of a    *)
(* sum, a difference, a product or a quotient is given by a formula of its *)
(* own, the carry into it included, so that no operation goes from digit   *)
(* to digit.                                                               *)

RECURSIVE Call(_, _)

LimbBits == 15

LimbBase == 32768

\* the member of a set of one member: The({e : x \in {v}}) is e with x the
\* value of v, which is computed once
The(S) == CHOOSE v \in S : TRUE

\* digit i of a, 0 beyond its last digit and before its first
Limb(a, i) == IF 1 <= i /\ i <= Len(a) THEN a[i] ELSE 0

\* digits without the zeros they end in
BNorm(digits) ==
    The({SubSeq(a, 1, CHOOSE k \in 0..Len(a) :
                          /\ k = 0 \/ a[k] # 0
                          /\ \A j \in (k + 1)..Len(a) : a[j] = 0) :
         a \in {digits}})

\* the number n, for 0 <= n < 2^31
BFromNat(n) ==
    BNorm(<<n % LimbBase, (n \div LimbBase) % LimbBase, n \div (LimbBase * LimbBase)>>)

\* x + y.  A carry goes into digit i when a digit below it overflows and
\* every digit between the two is full
BAdd(x, y) ==
    The({LET Sum(i) == Limb(a, i) + Limb(b, i)
             Carry(i) == \E j \in 1..(i - 1) :
                            /\ Sum(j) >= LimbBase
                            /\ \A k \in (j + 1)..(i - 1) : Sum(k) = LimbBase - 1
         IN  BNorm([i \in 1..((IF Len(a) > Len(b) THEN Len(a) ELSE Len(b)) + 1) |->
                       (Sum(i) + (IF Carry(i) THEN 1 ELSE 0)) % LimbBase]) :
         a \in {x}, b \in {y}})

\* x - y for x >= y.  Digit i lends one when a digit below it is short and
\* every digit between the two has nothing to spare
BSub(x, y) ==
    The({LET Diff(i) == Limb(a, i) - Limb(b, i)
             Borrow(i) == \E j \in 1..(i - 1) :
                             /\ Diff(j) < 0
                             /\ \A k \in (j + 1)..(i - 1) : Diff(k) = 0
         IN  BNorm([i \in 1..Len(a) |->
                       (Diff(i) - (IF Borrow(i) THEN 1 ELSE 0) + LimbBase) % LimbBase]) :
         a \in {x}, b \in {y}})

\* -1, 0, 1 as x < y, x = y, x > y
BCmp(x, y) ==
    The({IF Len(a) # Len(b) THEN (IF Len(a) < Len(b) THEN -1 ELSE 1)
         ELSE IF a = b THEN 0
         ELSE IF \E k \in 1..Len(a) :
                    a[k] < b[k] /\ \A j \in (k + 1)..Len(a) : a[j] = b[j]
         THEN -1 ELSE 1 :
         a \in {x}, b \in {y}})

\* x * n for 0 < n <= 2^15: the low halves of the digits' products plus the
\* high halves one digit up
BMulSmall(x, n) ==
    The({BAdd([i \in 1..Len(a) |-> (a[i] * n) % LimbBase],
              <<0>> \o [i \in 1..Len(a) |-> (a[i] * n) \div LimbBase]) :
         a \in {x}})

\* quotient and remainder of x by n for 0 < n <= 2^15.  Rem(lo, hi) is what
\* the digits lo..hi leave, by halves of the range, and Pow(k) what 2^(15k)
\* leaves; a digit of the quotient comes from the digits above it
BDivSmall(x, n) ==
    The({LET RECURSIVE Pow(_)
             Pow(k) == IF k = 1 THEN LimbBase % d
                       ELSE (Pow(k \div 2) * Pow(k - (k \div 2))) % d
             RECURSIVE Rem(_, _)
             Rem(lo, hi) ==
                 IF lo > hi THEN 0
                 ELSE IF lo = hi THEN a[lo] % d
                 ELSE (Rem(((lo + hi) \div 2) + 1, hi) * Pow(((lo + hi) \div 2) - lo + 1) +
                       Rem(lo, (lo + hi) \div 2)) % d
         IN  [q |-> BNorm([i \in 1..Len(a) |->
                              (Rem(i + 1, Len(a)) * LimbBase + a[i]) \div d]),
              r |-> Rem(1, Len(a))] :
         a \in {x}, d \in {n}})

\* x * 2^k: the bits of a digit go to two digits next to each other
BShl(x, k) ==
    The({IF a = <<>> THEN a
         ELSE [i \in 1..(k \div LimbBits) |-> 0] \o
              BNorm([i \in 1..(Len(a) + 1) |->
                        ((Limb(a, i) * (2 ^ r)) % LimbBase) +
                        (Limb(a, i - 1) \div (2 ^ (LimbBits - r)))]) :
         a \in {x}, r \in {k % LimbBits}})

\* x \div 2^k
BShr(x, k) ==
    The({BNorm([i \in 1..(Len(a) - (k \div LimbBits)) |->
                   (Limb(a, i + (k \div LimbBits)) \div (2 ^ r)) +
                   ((Limb(a, i + (k \div LimbBits) + 1) % (2 ^ r)) *
                    (2 ^ (LimbBits - r)))]) :
         a \in {x}, r \in {k % LimbBits}})

\* the number of bits of a
BLen(a) ==
    IF a = <<>> THEN 0
    ELSE LimbBits * (Len(a) - 1) +
         (CHOOSE k \in 1..LimbBits : 2 ^ (k - 1) <= a[Len(a)] /\ a[Len(a)] < 2 ^ k)

\* bit i of a
BBit(a, i) ==
    IF i < 1 \/ (i - 1) \div LimbBits >= Len(a) THEN 0
    ELSE (a[((i - 1) \div LimbBits) + 1] \div (2 ^ ((i - 1) % LimbBits))) % 2

\* whether a has a 1 among its k lowest bits
BLowBits(a, k) ==
    \/ \E i \in 1..(k \div LimbBits) : i <= Len(a) /\ a[i] # 0
    \/ /\ k \div LimbBits < Len(a)
       /\ a[(k \div LimbBits) + 1] % (2 ^ (k % LimbBits)) # 0

\* a * 10^q, by halves of q
RECURSIVE BTimes10Pow(_, _)
BTimes10Pow(a, q) ==
    IF q <= 4 THEN BMulSmall(a, 10 ^ q)
    ELSE The({Call("BTimes10Pow", <<h, q - (q \div 2)>>) : h \in {Call("BTimes10Pow", <<a, q \div 2>>)}})

\* a \div 10^q, and whether anything was cut off (or sticky was set)
RECURSIVE BDiv10Pow(_, _, _)
BDiv10Pow(a, q, sticky) ==
    IF q <= 4
    THEN The({[q |-> d.q, sticky |-> sticky \/ d.r # 0] :
              d \in {BDivSmall(a, 10 ^ q)}})
    ELSE The({Call("BDiv10Pow", <<h.q, q - (q \div 2), h.sticky>>) :
              h \in {Call("BDiv10Pow", <<a, q \div 2, sticky>>)}})

\* the decimal digits of x, most significant first; <<>> for 0.  The digits
\* are taken four at a time: chunk[c] is x \div 10^(4(c-1)) modulo 10^4, and
\* n is the number of digits
BDecimal(x) ==
    LET DigitOf(chunk, p) == (chunk[(p \div 4) + 1] \div (10 ^ (p % 4))) % 10
    IN  The({The({[i \in 1..n |-> Digits[DigitOf(chunk, n - i) + 1]] :
                  n \in {CHOOSE m \in 0..(4 * Len(chunk)) :
                             /\ m = 0 \/ DigitOf(chunk, m - 1) # 0
                             /\ \A p \in m..((4 * Len(chunk)) - 1) :
                                    DigitOf(chunk, p) = 0}}) :
             chunk \in {[c \in 1..((((BLen(x) * 30103) \div 100000) \div 4) + 1) |->
                           BDivSmall(Call("BDiv10Pow", <<x, 4 * (c - 1), FALSE>>).q, 10000).r]}})

\* the number a sequence of decimal digits denotes, nine digits at a time
RECURSIVE BFromDecimal(_)
BFromDecimal(digits) ==
    The({LET \* digit i from the right of the last nine
             D(i) == IF i <= Len(s) /\ i <= 9 THEN DigitVal(s[Len(s) + 1 - i]) ELSE 0
             last == ((D(1) + 10 * D(2)) + (100 * D(3) + 1000 * D(4))) +
                     ((10000 * D(5) + 100000 * D(6)) +
                      (1000000 * D(7) + (10000000 * D(8) + 100000000 * D(9))))
         IN  IF Len(s) <= 9 THEN BFromNat(last)
             ELSE BAdd(Call("BTimes10Pow", <<Call("BFromDecimal", <<SubSeq(s, 1, Len(s) - 9)>>), 9>>),
                       BFromNat(last)) :
         s \in {digits}})

PyNaN == [t |-> "float", c |-> "nan", neg |-> FALSE, m |-> <<>>, e |-> 0]

PyInf(neg) == [t |-> "float", c |-> "inf", neg |-> neg, m |-> <<>>, e |-> 0]

\* the finite float (-1)^neg * m * 2^e for m of at most 53 bits; the zero
\* bits m ends in go to the exponent
PyFloat(neg, m, e) ==
    LET Shifted(zeros) ==
            [t |-> "float", c |-> "finite", neg |-> neg,
             m |-> BShr(m, zeros), e |-> e + zeros]
    IN  IF m = <<>>
        THEN [t |-> "float", c |-> "finite", neg |-> neg, m |-> <<>>, e |-> 0]
        ELSE Shifted((CHOOSE b \in 1..BLen(m) :
                          BBit(m, b) = 1 /\ \A z \in 1..(b - 1) : BBit(m, z) = 0) - 1)

\* the float nearest to (-1)^neg * (x + f) * 2^e, ties to the even one,
\* where 0 <= f < 1 and sticky says whether f > 0: 53 bits are kept, fewer
\* below 2^-1022; from 2^1024 on the result is an infinity, whether bits
\* were dropped or not.  d is how many bits of x go, and m is x without
\* them, one more if they are over a half or are a half and that makes m
\* even
FloatRound(neg, x, e, sticky) ==
    The({LET d == IF BLen(n) - 53 > (-1074) - e THEN BLen(n) - 53 ELSE (-1074) - e
             \* m * 2^k for m of at most 53 bits, or 2^53
             Kept(m, k) == IF m # <<>> /\ BLen(m) + k > 1024 THEN PyInf(neg)
                           ELSE PyFloat(neg, m, k)
         IN  IF d <= 0 THEN Kept(n, e)
             ELSE The({Kept(m, e + d) :
                       m \in {IF /\ BBit(n, d) = 1
                                 /\ \/ sticky
                                    \/ BLowBits(n, d - 1)
                                    \/ BBit(n, d + 1) = 1
                              THEN BAdd(BShr(n, d), <<1>>) ELSE BShr(n, d)}}) :
         n \in {x}})

\* float(i) for an int
FloatOfInt(i) == Call("FloatRound", <<i < 0, BFromNat(IF i < 0 THEN -i ELSE i), 0, FALSE>>)

\* the float nearest to (-1)^neg * x * 10^y (the string-to-float conversion)
FloatOfDecimal(neg, x, y) ==
    The({IF n = <<>> THEN PyFloat(neg, <<>>, 0)
         ELSE IF q > 400 THEN PyInf(neg)
         ELSE IF BLen(n) + q < -400 THEN PyFloat(neg, <<>>, 0)
         ELSE IF q >= 0 THEN Call("FloatRound", <<neg, Call("BTimes10Pow", <<n, q>>), 0, FALSE>>)
         ELSE The({Call("FloatRound", <<neg, d.q, -(64 + 4 * (-q)), d.sticky>>) :
                   d \in {Call("BDiv10Pow", <<BShl(n, 64 + 4 * (-q)), -q, FALSE>>)}}) :
         n \in {x}, q \in {y}})

\* a + b
FloatAdd(a, b) ==
    LET e == IF a.e < b.e THEN a.e ELSE b.e
    IN  IF a.c # "finite" \/ b.c # "finite"
        THEN (IF a.c = "nan" \/ b.c = "nan" THEN PyNaN
              ELSE IF a.c = "inf" /\ b.c = "inf"
              THEN (IF a.neg = b.neg THEN a ELSE PyNaN)
              ELSE IF a.c = "inf" THEN a ELSE b)
        ELSE IF a.m = <<>> \/ b.m = <<>>
        THEN (IF a.m = <<>> /\ b.m = <<>> THEN PyFloat(a.neg /\ b.neg, <<>>, 0)
              ELSE IF a.m = <<>> THEN b ELSE a)
        ELSE The({IF a.neg = b.neg THEN Call("FloatRound", <<a.neg, BAdd(x, y), e, FALSE>>)
                  ELSE IF x = y THEN PyFloat(FALSE, <<>>, 0)
                  ELSE IF BCmp(x, y) > 0 THEN Call("FloatRound", <<a.neg, BSub(x, y), e, FALSE>>)
                  ELSE Call("FloatRound", <<b.neg, BSub(y, x), e, FALSE>>) :
                  x \in {BShl(a.m, a.e - e)}, y \in {BShl(b.m, b.e - e)}})

\* a / n for an int n with 0 < n <= 2^15
FloatDivInt(a, n) ==
    LET s == 64 + BLen(BFromNat(n))
    IN  IF a.c # "finite" \/ a.m = <<>> THEN a
        ELSE The({Call("FloatRound", <<a.neg, d.q, a.e - s, d.r # 0>>) :
                  d \in {BDivSmall(BShl(a.m, s), n)}})

\* repr(f), float_repr_style 'short': the shortest decimal that converts
\* back to f (David Gay's shortest repr), in exponent notation when the
\* decimal point is left of 10^-4 or right of 10^16
FloatRepr(f) ==
    LET \* whether 10^x <= f
        AtLeast10Pow(x) ==
            IF f.e >= 0
            THEN BCmp(BShl(IF x < 0 THEN Call("BTimes10Pow", <<f.m, -x>>) ELSE f.m, f.e),
                      IF x < 0 THEN <<1>> ELSE Call("BTimes10Pow", <<<<1>>, x>>)) >= 0
            ELSE BCmp(IF x < 0 THEN Call("BTimes10Pow", <<f.m, -x>>) ELSE f.m,
                      BShl(IF x < 0 THEN <<1>> ELSE Call("BTimes10Pow", <<<<1>>, x>>), -f.e)) >= 0
        \* the x with 10^x <= f < 10^(x+1), searched from an estimate
        RECURSIVE Log10From(_)
        Log10From(x) ==
            IF ~AtLeast10Pow(x) THEN Log10From(x - 1)
            ELSE IF AtLeast10Pow(x + 1) THEN Log10From(x + 1)
            ELSE x
        \* floor(2 * f * 10^a), and whether anything was cut off
        TwiceScaled(a) ==
            The({IF f.e + 1 < 0
                 THEN Call("BDiv10Pow", <<BShr(n, -(f.e + 1)), IF a < 0 THEN -a ELSE 0,
                                BLowBits(n, -(f.e + 1))>>)
                 ELSE Call("BDiv10Pow", <<BShl(n, f.e + 1), IF a < 0 THEN -a ELSE 0, FALSE>>) :
                 n \in {IF a > 0 THEN Call("BTimes10Pow", <<f.m, a>>) ELSE f.m}})
        \* the decimal n * 10^q of p digits nearest to f that converts back to
        \* f, if there is one, for q = x - (p - 1): t is floor(2 * f / 10^q),
        \* lo the decimal below f and lo + 1 the one above
        ShortestOf(x, p) ==
            The({The({IF ok[1] /\ ok[2]
                      THEN [ok |-> TRUE, q |-> x - (p - 1),
                            n |-> IF BBit(t.q, 1) = 1 /\ (t.sticky \/ BBit(t.q, 2) = 1)
                                  THEN BAdd(BShr(t.q, 1), <<1>>) ELSE BShr(t.q, 1)]
                      ELSE IF ok[1] THEN [ok |-> TRUE, q |-> x - (p - 1), n |-> BShr(t.q, 1)]
                      ELSE IF ok[2]
                      THEN [ok |-> TRUE, q |-> x - (p - 1), n |-> BAdd(BShr(t.q, 1), <<1>>)]
                      ELSE [ok |-> FALSE, q |-> x - (p - 1), n |-> <<>>] :
                      ok \in {<<Call("FloatOfDecimal", <<f.neg, BShr(t.q, 1), x - (p - 1)>>) = f,
                                /\ BBit(t.q, 1) = 1 \/ t.sticky
                                /\ Call("FloatOfDecimal", <<f.neg, BAdd(BShr(t.q, 1), <<1>>),
                                                  x - (p - 1)>>) = f>>}}) :
                 t \in {TwiceScaled((p - 1) - x)}})
        \* the least number of digits p in lo..hi for which there is one;
        \* with 17 digits there always is
        RECURSIVE Shortest(_, _, _)
        Shortest(x, lo, hi) ==
            IF lo = hi THEN ShortestOf(x, lo)
            ELSE IF ShortestOf(x, (lo + hi) \div 2).ok
            THEN Shortest(x, lo, (lo + hi) \div 2)
            ELSE Shortest(x, ((lo + hi) \div 2) + 1, hi)
        \* d without the zeros it ends in, but for its first digit
        StripZeros(d) ==
            SubSeq(d, 1, CHOOSE k \in 1..Len(d) :
                             /\ k = 1 \/ d[k] # "0"
                             /\ \A j \in (k + 1)..Len(d) : d[j] = "0")
        Zeros(k) == IF k = 0 THEN <<>> ELSE [i \in 1..k |-> "0"]
        sign == IF f.neg THEN <<"-">> ELSE <<>>
        \* the digits ds with the decimal point after decpt of them
        Text(ds, decpt) ==
            IF decpt <= -4 \/ decpt > 16
            THEN <<ds[1]>> \o
                 (IF Len(ds) > 1 THEN <<".">> \o Tail(ds) ELSE <<>>) \o
                 <<"e", IF decpt < 1 THEN "-" ELSE "+">> \o
                 (IF decpt \in (-8)..10 THEN <<"0">> ELSE <<>>) \o
                 NatToChars(IF decpt < 1 THEN 1 - decpt ELSE decpt - 1)
            ELSE IF decpt <= 0 THEN <<"0", ".">> \o Zeros(-decpt) \o ds
            ELSE IF decpt < Len(ds)
                 THEN SubSeq(ds, 1, decpt) \o <<".">> \o SubSeq(ds, decpt + 1, Len(ds))
            ELSE ds \o Zeros(decpt - Len(ds)) \o <<".", "0">>
    IN  IF f.c = "nan" THEN <<"n", "a", "n">>
        ELSE IF f.c = "inf" THEN sign \o <<"i", "n", "f">>
        ELSE IF f.m = <<>> THEN sign \o <<"0", ".", "0">>
        ELSE The({The({sign \o Text(ds, Len(Call("BDecimal", <<s.n>>)) + s.q) :
                       ds \in {StripZeros(Call("BDecimal", <<s.n>>))}}) :
                  s \in {Shortest(Log10From(((BLen(f.m) + f.e - 1) * 30103) \div 100000),
                                  1, 17)}})

----------------------------------------------------------------------------
(* bytes.decode("utf-8") and str.encode("utf-8") on the modelled alphabet *)

Utf8Decode(y) ==
    IF \E k \in 1..Len(y) : y[k] = InvalidByte
    THEN [ok |-> FALSE, val |-> PyNone]
    ELSE [ok |-> TRUE, val |-> PyStr(y)]

Utf8Encode(s) == PyBytes(s)

----------------------------------------------------------------------------
(* json.dumps with the default separators (", " and ": "), ensure_ascii *)

\* the characters of s with the escapes of py_encode_basestring_ascii, by
\* halves of s
EscapeChars(s) ==
    LET EscapeChar(c) ==
            CASE c = QUOTE -> <<BACKSLASH, QUOTE>>
              [] c = BACKSLASH -> <<BACKSLASH, BACKSLASH>>
              [] c = "\n" -> <<BACKSLASH, "n">>
              [] c = "\t" -> <<BACKSLASH, "t">>
              [] c = "\r" -> <<BACKSLASH, "r">>
              [] OTHER -> <<c>>
        RECURSIVE Part(_, _)
        Part(lo, hi) ==
            IF lo > hi THEN <<>>
            ELSE IF lo = hi THEN EscapeChar(s[lo])
            ELSE Part(lo, (lo + hi) \div 2) \o Part(((lo + hi) \div 2) + 1, hi)
    IN  Part(1, Len(s))

DumpsStr(s) == <<QUOTE>> \o EscapeChars(s) \o <<QUOTE>>

DumpsFail == [ok |-> FALSE, text |-> <<>>]

\* floatstr: float.__repr__, and NaN, Infinity, -Infinity (allow_nan)
DumpsFloat(f) ==
    IF f.c = "nan" THEN <<"N", "a", "N">>
    ELSE IF f.c = "inf"
    THEN (IF f.neg THEN <<"-">> ELSE <<>>) \o <<"I", "n", "f", "i", "n", "i", "t", "y">>
    ELSE Call("FloatRepr", <<f>>)

RECURSIVE Dumps(_)

\* the elements of a list or tuple, joined by ", "
DumpsElements(e) ==
    LET RECURSIVE Join(_, _, _)
        Join(part, lo, hi) ==
            IF lo = hi THEN part[lo].text
            ELSE Join(part, lo, (lo + hi) \div 2) \o <<",", " ">> \o
                 Join(part, ((lo + hi) \div 2) + 1, hi)
    IN  IF e = <<>> THEN [ok |-> TRUE, text |-> <<>>]
        ELSE The({IF \E n \in 1..Len(part) : ~part[n].ok THEN DumpsFail
                  ELSE [ok |-> TRUE, text |-> Join(part, 1, Len(part))] :
                  part \in {<<>> \o [n \in 1..Len(e) |-> Call("Dumps", <<e[n]>>)]}})

\* the items of a dict, each "key": value, joined by ", "
DumpsItems(d) ==
    LET DumpsKey(k) ==
            CASE k.t = "str" -> [ok |-> TRUE, text |-> DumpsStr(k.s)]
              [] k.t = "int" -> [ok |-> TRUE, text |-> DumpsStr(IntToChars(k.i))]
              [] k.t = "float" -> [ok |-> TRUE, text |-> DumpsStr(DumpsFloat(k))]
              [] k.t = "bool" ->
                   [ok |-> TRUE,
                    text |-> DumpsStr(IF k.b THEN <<"t", "r", "u", "e">>
                                      ELSE <<"f", "a", "l", "s", "e">>)]
              [] k.t = "None" ->
                   [ok |-> TRUE, text |-> DumpsStr(<<"n", "u", "l", "l">>)]
              [] OTHER -> DumpsFail
        \* "key": value
        Item(k, v) ==
            IF ~k.ok \/ ~v.ok THEN DumpsFail
            ELSE [ok |-> TRUE, text |-> k.text \o <<":", " ">> \o v.text]
        RECURSIVE Join(_, _, _)
        Join(part, lo, hi) ==
            IF lo = hi THEN part[lo].text
            ELSE Join(part, lo, (lo + hi) \div 2) \o <<",", " ">> \o
                 Join(part, ((lo + hi) \div 2) + 1, hi)
    IN  IF d = <<>> THEN [ok |-> TRUE, text |-> <<>>]
        ELSE The({IF \E n \in 1..Len(part) : ~part[n].ok THEN DumpsFail
                  ELSE [ok |-> TRUE, text |-> Join(part, 1, Len(part))] :
                  part \in {<<>> \o [n \in 1..Len(d) |->
                                        Item(DumpsKey(d[n][1]), Call("Dumps", <<d[n][2]>>))]}})

\* json.dumps(v): ok = FALSE stands for the TypeError of an unserialisable value
Dumps(v) ==
    LET Between(open, r, close) ==
            IF r.ok THEN [ok |-> TRUE, text |-> <<open>> \o r.text \o <<close>>]
            ELSE DumpsFail
    IN
    CASE v.t = "None" -> [ok |-> TRUE, text |-> <<"n", "u", "l", "l">>]
      [] v.t = "bool" ->
           [ok |-> TRUE,
            text |-> IF v.b THEN <<"t", "r", "u", "e">> ELSE <<"f", "a", "l", "s", "e">>]
      [] v.t = "int" -> [ok |-> TRUE, text |-> IntToChars(v.i)]
      [] v.t = "float" -> [ok |-> TRUE, text |-> DumpsFloat(v)]
      [] v.t = "str" -> [ok |-> TRUE, text |-> DumpsStr(v.s)]
      [] v.t = "list" -> Between("[", DumpsElements(v.e), "]")
      [] v.t = "tuple" -> Between("[", DumpsElements(v.u), "]")
      [] v.t = "dict" -> Between("{", DumpsItems(v.d), "}")
      [] OTHER -> DumpsFail

----------------------------------------------------------------------------
(* json.loads: the decoder's scanner (scan_once, JSONObject, JSONArray,    *)
(* scanstring, the number pattern), by position in the text                *)

LoadsFail == [ok |-> FALSE, val |-> PyNone, pos |-> 0]

\* the position after the characters of set that start at i
RunEnd(s, i, set) ==
    CHOOSE k \in i..(Len(s) + 1) :
        /\ k = Len(s) + 1 \/ s[k] \notin set
        /\ \A j \in i..(k - 1) : s[j] \in set

SkipWs(s, i) == RunEnd(s, i, Whitespace)

\* scanstring from the character after the opening quote (strict mode).  A
\* character is escaped when the backslashes in front of it, back to i, are
\* odd in number; the string ends before the first quote that is not; keep
\* is the characters in between without the backslashes that escape
ScanString(s, i) ==
    LET Unescape(c) ==
            CASE c = "n" -> "\n"
              [] c = "t" -> "\t"
              [] c = "r" -> "\r"
              [] OTHER -> c
        Escaped(k) ==
            (k - (CHOOSE a \in i..k :
                      /\ \A j \in a..(k - 1) : s[j] = BACKSLASH
                      /\ a = i \/ s[a - 1] # BACKSLASH)) % 2 = 1
        Closes(k) == s[k] = QUOTE /\ ~Escaped(k)
        Wrong(k) ==
            IF Escaped(k) THEN s[k] \notin {QUOTE, BACKSLASH, "/", "n", "t", "r"}
            ELSE s[k] \in {"\n", "\t", "\r"}
        Kept(keep, r) == CHOOSE k \in keep : Cardinality({j \in keep : j < k}) = r - 1
    IN  IF ~\E k \in i..Len(s) : Closes(k) THEN LoadsFail
        ELSE The({IF \E k \in i..(close - 1) : Wrong(k) THEN LoadsFail
                  ELSE The({[ok |-> TRUE,
                             val |-> PyStr(<<>> \o
                                       [r \in 1..Cardinality(keep) |->
                                           The({IF Escaped(k) THEN Unescape(s[k]) ELSE s[k] :
                                                k \in {Kept(keep, r)}})]),
                             pos |-> close + 1] :
                            keep \in {{k \in i..(close - 1) :
                                          Escaped(k) \/ s[k] # BACKSLASH}}}) :
                  close \in {CHOOSE k \in i..Len(s) :
                                 Closes(k) /\ \A j \in i..(k - 1) : ~Closes(j)}})

\* the number the digits that start at i denote, by halves of them, and the
\* position after them
ScanDigits(s, i) ==
    LET RECURSIVE Value(_, _)
        Value(lo, hi) ==
            IF lo > hi THEN 0
            ELSE IF lo = hi THEN DigitVal(s[lo])
            ELSE Value(lo, (lo + hi) \div 2) * (10 ^ (hi - ((lo + hi) \div 2))) +
                 Value(((lo + hi) \div 2) + 1, hi)
    IN  The({[val |-> Value(i, end - 1), pos |-> end] :
             end \in {RunEnd(s, i, DigitSet)}})

\* the value of the digits of an exponent; from 10^5 on, 10^5
ExponentValue(ds) ==
    The({IF Len(sig) > 5 THEN 100000 ELSE ScanDigits(sig, 1).val :
         sig \in {SubSeq(ds, 1 + (CHOOSE k \in 0..Len(ds) :
                                      /\ k = Len(ds) \/ ds[k + 1] # "0"
                                      /\ \A j \in 1..k : ds[j] = "0"),
                         Len(ds))}})

\* the number pattern -?(0|[1-9][0-9]*)(\.[0-9]+)?([eE][-+]?[0-9]+)? at i:
\* an int when there is neither fraction nor exponent, else
\* float(integer + fraction + exponent).  The integer digits end before p,
\* the fraction before q (p when there is none), the digits of the exponent
\* start at d (0 when there is none) and the number ends before r
ScanNumber(s, i) ==
    LET j == IF s[i] = "-" THEN i + 1 ELSE i
        p == IF s[j] = "0" THEN j + 1 ELSE RunEnd(s, j, DigitSet)
        q == IF p + 1 <= Len(s) /\ s[p] = "." /\ s[p + 1] \in DigitSet
             THEN RunEnd(s, p + 1, DigitSet) ELSE p
        e == IF q + 1 <= Len(s) /\ s[q + 1] \in {"+", "-"} THEN q + 2 ELSE q + 1
        d == IF e <= Len(s) /\ s[q] \in {"e", "E"} /\ s[e] \in DigitSet THEN e ELSE 0
        r == IF d = 0 THEN q ELSE RunEnd(s, d, DigitSet)
        exponent ==
            IF d = 0 THEN 0
            ELSE IF s[q + 1] = "-" THEN -ExponentValue(SubSeq(s, d, r - 1))
            ELSE ExponentValue(SubSeq(s, d, r - 1))
    IN  IF j > Len(s) \/ s[j] \notin DigitSet THEN LoadsFail
        ELSE IF q = p /\ d = 0
        THEN [ok |-> TRUE,
              val |-> PyInt(IF s[j] = "0" THEN 0
                            ELSE IF s[i] = "-" THEN -ScanDigits(s, j).val
                            ELSE ScanDigits(s, j).val),
              pos |-> p]
        ELSE [ok |-> TRUE,
              val |-> Call("FloatOfDecimal", <<s[i] = "-",
                          Call("BFromDecimal", <<SubSeq(s, j, p - 1) \o SubSeq(s, p + 1, q - 1)>>),
                          exponent - Len(SubSeq(s, p + 1, q - 1))>>),
              pos |-> r]

\* dict(pairs): a repeated key keeps its first position and its last value
DictFromPairs(pairs) ==
    The({LET First(k) == \A j \in 1..(k - 1) : p[j][1] # p[k][1]
             Last(k) == CHOOSE m \in k..Len(p) :
                           /\ p[m][1] = p[k][1]
                           /\ \A j \in (m + 1)..Len(p) : p[j][1] # p[k][1]
         IN  The({<<>> \o
                  [r \in 1..Cardinality(firsts) |->
                      The({<<p[k][1], p[Last(k)][2]>> :
                           k \in {CHOOSE k \in firsts :
                                      Cardinality({j \in firsts : j < k}) = r - 1}})] :
                  firsts \in {{k \in 1..Len(p) : First(k)}}}) :
         p \in {pairs}})

RECURSIVE ParseValue(_, _)
RECURSIVE ParseMembers(_, _, _)
RECURSIVE ParseElements(_, _, _)

\* JSONObject's loop; i is at the opening quote of the next key, acc is the
\* pairs before it.  m is the member at i: its key k, the colon, its value v,
\* and the position of what follows the value
ParseMembers(s, i, acc) ==
    LET Colon(k) == SkipWs(s, k.pos)
        Member ==
            IF i > Len(s) \/ s[i] # QUOTE THEN LoadsFail
            ELSE The({IF ~k.ok \/ Colon(k) > Len(s) \/ s[Colon(k)] # ":" THEN LoadsFail
                      ELSE The({IF ~v.ok THEN LoadsFail
                                ELSE [ok |-> TRUE, val |-> <<k.val, v.val>>,
                                      pos |-> SkipWs(s, v.pos)] :
                                v \in {Call("ParseValue", <<s, SkipWs(s, Colon(k) + 1)>>)}}) :
                      k \in {ScanString(s, i + 1)}})
    IN  The({IF m.ok /\ m.pos <= Len(s) /\ s[m.pos] = ","
             THEN ParseMembers(s, SkipWs(s, m.pos + 1), Append(a, m.val))
             ELSE IF m.ok /\ m.pos <= Len(s) /\ s[m.pos] = "}"
             THEN [ok |-> TRUE, val |-> PyDict(DictFromPairs(Append(a, m.val))),
                   pos |-> m.pos + 1]
             ELSE LoadsFail :
             m \in {Member}, a \in {acc}})

\* JSONArray's loop; i is at the start of the next element, acc is the
\* elements before it.  m is the element at i and the position of what
\* follows it
ParseElements(s, i, acc) ==
    LET Element ==
            The({IF ~v.ok THEN LoadsFail
                 ELSE [ok |-> TRUE, val |-> v.val, pos |-> SkipWs(s, v.pos)] :
                 v \in {Call("ParseValue", <<s, i>>)}})
    IN  The({IF m.ok /\ m.pos <= Len(s) /\ s[m.pos] = ","
             THEN ParseElements(s, SkipWs(s, m.pos + 1), Append(a, m.val))
             ELSE IF m.ok /\ m.pos <= Len(s) /\ s[m.pos] = "]"
             THEN [ok |-> TRUE, val |-> PyList(Append(a, m.val)), pos |-> m.pos + 1]
             ELSE LoadsFail :
             m \in {Element}, a \in {acc}})

\* scan_once at position i: a string, an object, an array, null, true,
\* false, a number, NaN, Infinity, -Infinity
ParseValue(s, i) ==
    LET Inner == SkipWs(s, i + 1)
    IN  IF i > Len(s) THEN LoadsFail
        ELSE CASE s[i] = QUOTE -> ScanString(s, i + 1)
               [] s[i] = "{" ->
                    IF Inner <= Len(s) /\ s[Inner] = "}"
                    THEN [ok |-> TRUE, val |-> PyDict(<<>>), pos |-> Inner + 1]
                    ELSE ParseMembers(s, Inner, <<>>)
               [] s[i] = "[" ->
                    IF Inner <= Len(s) /\ s[Inner] = "]"
                    THEN [ok |-> TRUE, val |-> PyList(<<>>), pos |-> Inner + 1]
                    ELSE ParseElements(s, Inner, <<>>)
               [] StartsWithAt(s, i, <<"n", "u", "l", "l">>) ->
                    [ok |-> TRUE, val |-> PyNone, pos |-> i + 4]
               [] StartsWithAt(s, i, <<"t", "r", "u", "e">>) ->
                    [ok |-> TRUE, val |-> PyBool(TRUE), pos |-> i + 4]
               [] StartsWithAt(s, i, <<"f", "a", "l", "s", "e">>) ->
                    [ok |-> TRUE, val |-> PyBool(FALSE), pos |-> i + 5]
               [] OTHER ->
                    The({IF n.ok THEN n
                         ELSE IF StartsWithAt(s, i, <<"N", "a", "N">>)
                         THEN [ok |-> TRUE, val |-> PyNaN, pos |-> i + 3]
                         ELSE IF StartsWithAt(s, i, <<"I", "n", "f", "i", "n", "i", "t", "y">>)
                         THEN [ok |-> TRUE, val |-> PyInf(FALSE), pos |-> i + 8]
                         ELSE IF StartsWithAt(s, i, <<"-", "I", "n", "f", "i", "n", "i",
                                                      "t", "y">>)
                         THEN [ok |-> TRUE, val |-> PyInf(TRUE), pos |-> i + 9]
                         ELSE LoadsFail :
                         n \in {ScanNumber(s, i)}})

\* json.loads(s): one value between optional whitespace, nothing after it;
\* ok = FALSE stands for JSONDecodeError
Loads(s) ==
    The({IF ~v.ok THEN [ok |-> FALSE, val |-> PyNone]
         ELSE IF SkipWs(s, v.pos) = Len(s) + 1 THEN [ok |-> TRUE, val |-> v.val]
         ELSE [ok |-> FALSE, val |-> PyNone] :
         v \in {Call("ParseValue", <<s, SkipWs(s, 1)>>)}})

----------------------------------------------------------------------------
(* parse_input *)

\* parse_input with a missing value read as an empty object
parse_input_MissingAsEmpty(raw) ==
    IF raw = PyNone THEN PyDict(<<>>)
    ELSE LET text == IF raw.t = "str" THEN [ok |-> TRUE, val |-> raw]
                     ELSE Utf8Decode(raw.y)
         IN  IF ~text.ok THEN PyNone
             ELSE LET r == Call("Loads", <<text.val.s>>)
                  IN  IF r.ok THEN r.val ELSE PyNone

\* None for a missing value, for bytes that are not UTF-8 and for text that
\* is not JSON; otherwise whatever value the JSON text denotes.
parse_input(raw) ==
    IF raw = PyNone THEN PyNone
    ELSE LET text == IF raw.t = "str" THEN [ok |-> TRUE, val |-> raw]
                     ELSE Utf8Decode(raw.y)
         IN  IF ~text.ok THEN PyNone
             ELSE LET r == Call("Loads", <<text.val.s>>)
                  IN  IF r.ok THEN r.val ELSE PyNone

----------------------------------------------------------------------------
(* int(port_str): surrounding whitespace, an optional sign, decimal digits *)
(* with single underscores between them                                    *)

RECURSIVE StripLeft(_)
StripLeft(s) ==
    IF s # <<>> /\ Head(s) \in Whitespace THEN StripLeft(Tail(s)) ELSE s

RECURSIVE StripRight(_)
StripRight(s) ==
    IF s # <<>> /\ s[Len(s)] \in Whitespace
    THEN StripRight(SubSeq(s, 1, Len(s) - 1)) ELSE s

RECURSIVE DigitsValue(_, _)
DigitsValue(s, acc) ==
    IF s = <<>> THEN acc
    ELSE IF Head(s) = "_" THEN DigitsValue(Tail(s), acc)
    ELSE DigitsValue(Tail(s), 10 * acc + DigitVal(Head(s)))

\* ok = FALSE stands for ValueError
PyIntParse(s) ==
    LET t == StripRight(StripLeft(s))
        signed == t # <<>> /\ t[1] \in {"+", "-"}
        body == IF signed THEN Tail(t) ELSE t
        wellFormed ==
            /\ body # <<>>
            /\ \A k \in 1..Len(body) : body[k] \in DigitSet \cup {"_"}
            /\ body[1] # "_"
            /\ body[Len(body)] # "_"
            /\ \A k \in 1..(Len(body) - 1) : ~(body[k] = "_" /\ body[k + 1] = "_")
    IN  IF ~wellFormed THEN [ok |-> FALSE, val |-> PyNone]
        ELSE [ok |-> TRUE,
              val |-> PyInt(IF signed /\ t[1] = "-" THEN -DigitsValue(body, 0)
                            ELSE DigitsValue(body, 0))]

----------------------------------------------------------------------------
(* Names and program constants *)

POLL_INTERVAL_SECONDS == 5

DefaultPort == PyStr(<<"6", "3", "7", "9">>)

DefaultInputKey == PyStr(<<"m", "e", "t", "r", "i", "c", "s">>)

KeyIn == PyStr(<<"i", "n">>)

KeyOut == PyStr(<<"o", "u", "t">>)

\* redis_key of main() of the dashboard, started with REDIS_KEY not set
DashKey ==
    PyStr(<<"i", "f", "s", "4", "-", "p", "r", "o", "j", "3", "-", "o", "u", "t",
            "p", "u", "t">>)

\* the key the seeding script writes when it is given none
DefaultSeedKey ==
    PyStr(<<"2", "0", "2", "3", "0", "0", "1", "6", "5", "4", "-", "p", "r", "o",
            "j", "3", "-", "o", "u", "t", "p", "u", "t">>)

\* the keys of the store the model follows
Keys == {DefaultInputKey, KeyIn, KeyOut, DashKey, DefaultSeedKey}

\* os.environ.get(name, default)
EnvironGet(e, name, default) == IF e[name] = PyNone THEN default ELSE e[name]

----------------------------------------------------------------------------
(* Bounds *)

\* the clock runs from 0 to MaxTime
MaxTime == 1

\* how many times the external writer replaces the handler file
MaxFileWrites == 1

----------------------------------------------------------------------------
(* The process environments the runtime is started in (os.environ) *)

Environ(h, p, i, o) ==
    [REDIS_HOST |-> h, REDIS_PORT |-> p, REDIS_INPUT_KEY |-> i, REDIS_OUTPUT_KEY |-> o]

\* only the required output key is set: every default applies
EnvDefaults == Environ(PyNone, PyNone, PyNone, KeyOut)

EnvBadPort == Environ(PyNone, PyStr(<<"6", "3", ".", "7", "9">>), PyNone, KeyOut)

EnvEmptyPort == Environ(PyNone, PyStr(<<>>), PyNone, KeyOut)

\* the environments the runtime is started in.  In the second everything is
\* set, the port is padded with whitespace, which int() accepts, and the
\* input key and the output key are the same key; in the third the output
\* key is missing; in the last neither the output key nor the port is usable
Environments ==
    LET HostRedis == PyStr(<<"r", "e", "d", "i", "s">>) IN
    {EnvDefaults,
     Environ(HostRedis, PyStr(<<" ", "6", "3", "8", "0", "\n">>), KeyIn, KeyIn),
     Environ(HostRedis, PyNone, KeyIn, PyNone),
     EnvBadPort,
     EnvEmptyPort,
     Environ(PyNone, PyStr(<<"a", "b", "c">>), PyNone, PyNone)}

----------------------------------------------------------------------------
(* The raw values a producer stores under the input key *)

\* {"x": 1}
RawX1 == PyBytes(<<"{", QUOTE, "x", QUOTE, ":", " ", "1", "}">>)

\* {"x":2} followed by a newline
RawX2 == PyBytes(<<"{", QUOTE, "x", QUOTE, ":", "2", "}", "\n">>)

\* [1]
RawList == PyBytes(<<"[", "1", "]">>)

\* null
RawNull == PyBytes(<<"n", "u", "l", "l">>)

\* {"x": 1   (truncated: not JSON)
RawTruncated == PyBytes(<<"{", QUOTE, "x", QUOTE, ":", " ", "1">>)

\* {"x": 1} with a byte that is not UTF-8 in front
RawNotUtf8 == PyBytes(<<InvalidByte, "{", QUOTE, "x", QUOTE, ":", " ", "1", "}">>)

RawInputs == {RawX1, RawX2, RawList, RawNull, RawTruncated, RawNotUtf8}

----------------------------------------------------------------------------
(* The contents of the handler file: user modules.  Each is a small Python *)
(* module; ModuleExecRaises, ModuleHandlerCallable and HandlerCall say what *)
(* executing it and calling its handler do.                                *)
(*                                                                         *)
(*   transform     def handler(p, c): return {"y": p["x"] + 1}             *)
(*   echo          def handler(p, c): return p                             *)
(*   pythonic      def handler(p, c):                                      *)
(*                     if p["x"] == 1: return {1: "a"}                     *)
(*                     return {"s": {1}}                                   *)
(*   exits         def handler(p, c):                                      *)
(*                     if not isinstance(p, dict): sys.exit(1)             *)
(*                     (and no return statement)                           *)
(*   updated       def handler(p, c): return {"v": 2}                      *)
(*   broken        raise RuntimeError("boom")      (at top level)          *)
(*   nohandler     x = 1                                                   *)
(*   notcallable   handler = 42                                            *)
(***************************************************************************)

UpdatedModule == "updated"

Modules == ({"transform", "echo", "pythonic", "exits"}) \cup {"broken", "nohandler", "notcallable"}

ModuleExecRaises(src) == src = "broken"

\* callable(getattr(module, "handler", None))
ModuleHandlerCallable(src) == src \notin {"broken", "nohandler", "notcallable"}

HasKey(d, k) == \E n \in 1..Len(d.d) : d.d[n][1] = k

Lookup(d, k) == d.d[CHOOSE n \in 1..Len(d.d) : d.d[n][1] = k][2]

\* handler(payload, context) for the handler of module src
HandlerCall(src, p) ==
    LET StrX == PyStr(<<"x">>)
        Return(v) == [kind |-> "return", val |-> v]
        \* an exception derived from Exception
        Raise == [kind |-> "raise", val |-> PyNone]
        HasX == IsDict(p) /\ HasKey(p, StrX)
        \* v + 1: an int for an int or a bool, a float for a float, TypeError
        \* (ok = FALSE) for any other value
        PlusOne(v) ==
            CASE v.t = "int" -> [ok |-> TRUE, val |-> PyInt(v.i + 1)]
              [] v.t = "bool" -> [ok |-> TRUE, val |-> PyInt(IF v.b THEN 2 ELSE 1)]
              [] v.t = "float" -> [ok |-> TRUE, val |-> Call("FloatAdd", <<v, Call("FloatOfInt", <<1>>)>>)]
              [] OTHER -> [ok |-> FALSE, val |-> PyNone]
        \* v == 1
        EqualsOne(v) == v \in {PyInt(1), PyBool(TRUE), Call("FloatOfInt", <<1>>)}
    IN
    CASE src = "transform" ->
           IF HasX /\ PlusOne(Lookup(p, StrX)).ok
           THEN Return(PyDict(<< <<PyStr(<<"y">>), PlusOne(Lookup(p, StrX)).val>> >>))
           ELSE Raise
      [] src = "echo" -> Return(p)
      [] src = "pythonic" ->
           IF ~HasX THEN Raise
           ELSE IF EqualsOne(Lookup(p, StrX))
                THEN Return(PyDict(<< <<PyInt(1), PyStr(<<"a">>)>> >>))
           ELSE Return(PyDict(<< <<PyStr(<<"s">>), PySet({1})>> >>))
      [] src = "exits" ->
           IF ~IsDict(p) THEN [kind |-> "abort", val |-> PyNone] ELSE Return(PyNone)
      [] OTHER -> Return(PyDict(<< <<PyStr(<<"v">>), PyInt(2)>> >>))

\* what the handlers publish for the stored values of S: the payloads that
\* parse_input gives, what the handlers of the modules that load return for
\* them, and the JSON text of the dicts among that
PublishedFor(S) ==
    LET payloads == {p \in {Call("parse_input", <<v>>) : v \in S} : p # PyNone}
        returned == {r \in {Call("HandlerCall", <<m, p>>) :
                               m \in {m \in Modules \cup {UpdatedModule} :
                                         ~ModuleExecRaises(m) /\ ModuleHandlerCallable(m)},
                               p \in payloads} :
                        r.kind = "return" /\ IsDict(r.val)}
    IN  {Utf8Encode(d.text) : d \in {d \in {Call("Dumps", <<r.val>>) : r \in returned} : d.ok}}

\* parse_input of every value the input key can hold, computed once: nothing,
\* what a producer stores, and, when the output key is the input key, what
\* the runtime publishes
ParsedInputs ==
    The({{<<v, Call("parse_input", <<v>>)>> : v \in once \cup Call("PublishedFor", <<once>>)} :
         once \in {RawInputs \cup {PyNone} \cup Call("PublishedFor", <<RawInputs \cup {PyNone}>>)}})

\* parse_input(raw) for a stored value
ParsedInput(raw) == (CHOOSE p \in ParsedInputs : p[1] = raw)[2]

----------------------------------------------------------------------------
(* The dashboard (src/dashboard/app.py): one run of main() per refresh.    *)

HISTORY_LIMIT == 500

\* float(s) for a str: surrounding whitespace, an optional sign, then inf,
\* infinity or nan in any case, or digits with an optional point and an
\* optional exponent; ok = FALSE stands for ValueError
FloatParse(s) ==
    LET LowerCase(c) ==
            CASE c = "I" -> "i" [] c = "N" -> "n" [] c = "F" -> "f" [] c = "T" -> "t"
              [] c = "Y" -> "y" [] c = "A" -> "a" [] OTHER -> c
        \* digits with single underscores between them
        DigitRun(r) ==
            /\ r # <<>>
            /\ \A k \in 1..Len(r) : r[k] \in DigitSet \cup {"_"}
            /\ r[1] # "_"
            /\ r[Len(r)] # "_"
            /\ \A k \in 1..(Len(r) - 1) : ~(r[k] = "_" /\ r[k + 1] = "_")
        WithoutUnderscores(r) == SelectSeq(r, LAMBDA c : c # "_")
        \* body is the text after the sign; its integer digits end before p
        \* and its fraction before q (p when it has no point)
        Parsed(neg, body, p, q) ==
            LET word == [k \in 1..Len(body) |-> LowerCase(body[k])]
                int == SubSeq(body, 1, p - 1)
                frac == SubSeq(body, p + 1, q - 1)
                hasExp == q <= Len(body) /\ body[q] \in {"e", "E"}
                expSigned == q + 1 <= Len(body) /\ body[q + 1] \in {"+", "-"}
                expDigits == SubSeq(body, IF expSigned THEN q + 2 ELSE q + 1, Len(body))
                wellFormed ==
                    /\ int # <<>> \/ frac # <<>>
                    /\ int # <<>> => DigitRun(int)
                    /\ frac # <<>> => DigitRun(frac)
                    /\ hasExp => DigitRun(expDigits)
                    /\ ~hasExp => q = Len(body) + 1
            IN  IF word \in {<<"i", "n", "f">>, <<"i", "n", "f", "i", "n", "i", "t", "y">>}
                THEN [ok |-> TRUE, val |-> PyInf(neg)]
                ELSE IF word = <<"n", "a", "n">> THEN [ok |-> TRUE, val |-> PyNaN]
                ELSE IF ~wellFormed THEN [ok |-> FALSE, val |-> PyNone]
                ELSE [ok |-> TRUE,
                      val |-> Call("FloatOfDecimal", <<neg,
                                  Call("BFromDecimal", <<WithoutUnderscores(int \o frac)>>),
                                  (IF ~hasExp THEN 0
                                   ELSE IF body[q + 1] = "-"
                                   THEN -ExponentValue(WithoutUnderscores(expDigits))
                                   ELSE ExponentValue(WithoutUnderscores(expDigits))) -
                                  Len(WithoutUnderscores(frac))>>)]
        Body(t) == IF t # <<>> /\ t[1] \in {"+", "-"} THEN Tail(t) ELSE t
        IntEnd(t) == RunEnd(Body(t), 1, DigitSet \cup {"_"})
        FracEnd(t) ==
            IF IntEnd(t) <= Len(Body(t)) /\ Body(t)[IntEnd(t)] = "."
            THEN RunEnd(Body(t), IntEnd(t) + 1, DigitSet \cup {"_"})
            ELSE IntEnd(t)
    IN  The({Parsed(t # <<>> /\ t[1] = "-", Body(t), IntEnd(t), FracEnd(t)) :
             t \in {StripRight(StripLeft(s))}})

\* float(v): TypeError or ValueError is ok = FALSE
Float(v) ==
    CASE v.t = "int" -> [ok |-> TRUE, val |-> Call("FloatOfInt", <<v.i>>)]
      [] v.t = "bool" -> [ok |-> TRUE, val |-> Call("FloatOfInt", <<IF v.b THEN 1 ELSE 0>>)]
      [] v.t = "float" -> [ok |-> TRUE, val |-> v]
      [] v.t = "str" -> Call("FloatParse", <<v.s>>)
      [] OTHER -> [ok |-> FALSE, val |-> PyNone]

\* the least j >= i with s[j:j+len(w)] == w, or 0
FindFrom(s, w, i) ==
    LET at == {j \in i..Len(s) : StartsWithAt(s, j, w)}
    IN  IF at = {} THEN 0 ELSE CHOOSE j \in at : \A k \in at : j <= k

\* whether the words occur in s in this order, one after the other, from i on
RECURSIVE WordsInOrder(_, _, _)
WordsInOrder(s, words, i) ==
    IF words = <<>> THEN TRUE
    ELSE LET j == FindFrom(s, Head(words), i)
         IN  j # 0 /\ WordsInOrder(s, Tail(words), j + Len(Head(words)))

\* re.compile(pattern).search(s) for a pattern of literal words joined by
\* ".*": "." matches every character but the newline, so the words occur in
\* this order within one line of s, a line being s[a..b] between two newlines
\* or ends of s
RegexSearch(s, words) ==
    \E a \in 1..(Len(s) + 1), b \in 0..Len(s) :
        /\ a <= b + 1
        /\ a = 1 \/ s[a - 1] = "\n"
        /\ b = Len(s) \/ s[b + 1] = "\n"
        /\ \A k \in a..b : s[k] # "\n"
        /\ WordsInOrder(SubSeq(s, a, b), words, 1)

KeyPercentNetworkEgress ==
    PyStr(<<"p", "e", "r", "c", "e", "n", "t", "-", "n", "e", "t", "w", "o", "r",
            "k", "-", "e", "g", "r", "e", "s", "s">>)

KeyPercentMemoryCache ==
    PyStr(<<"p", "e", "r", "c", "e", "n", "t", "-", "m", "e", "m", "o", "r", "y",
            "-", "c", "a", "c", "h", "e">>)

\* find_metric(data, pattern, fallback_keys): the first item whose key the
\* pattern matches and whose value float() accepts, else the first fallback
\* key present with such a value, else None.  The pattern is an alternation
\* of literals joined by ".*", given as the set of its alternatives, and
\* regex.search(key) finds one of them in the key
find_metric(data, pattern, fallback_keys) ==
    LET hit == {n \in 1..Len(data.d) :
                  /\ \E alt \in pattern : RegexSearch(data.d[n][1].s, alt)
                  /\ Call("Float", <<data.d[n][2]>>).ok}
        fall == {n \in 1..Len(fallback_keys) :
                  /\ HasKey(data, fallback_keys[n])
                  /\ Call("Float", <<Lookup(data, fallback_keys[n])>>).ok}
    IN  IF hit # {}
        THEN Call("Float", <<data.d[CHOOSE n \in hit : \A k \in hit : n <= k][2]>>).val
        ELSE IF fall # {}
        THEN Call("Float", <<Lookup(data, fallback_keys[CHOOSE n \in fall :
                                                \A k \in fall : n <= k])>>).val
        ELSE PyNone

\* re.compile(r"cpu(\d+)", re.IGNORECASE).search(key): the number after the
\* leftmost "cpu" that digits follow, or -1 when there is none
CpuNumber(key) ==
    LET isCpu(j) == /\ j + 3 <= Len(key)
                    /\ key[j] \in {"c", "C"}
                    /\ key[j + 1] \in {"p", "P"}
                    /\ key[j + 2] \in {"u", "U"}
                    /\ key[j + 3] \in DigitSet
        at == {j \in 1..Len(key) : isCpu(j)}
    IN  IF at = {} THEN -1
        ELSE LET j == CHOOSE a \in at : \A b \in at : a <= b
                 last == CHOOSE e \in (j + 3)..Len(key) :
                            /\ \A k \in (j + 3)..e : key[k] \in DigitSet
                            /\ e = Len(key) \/ key[e + 1] \notin DigitSet
             IN  DigitsValue(SubSeq(key, j + 3, last), 0)

\* extract_cpu_metrics(data): the dict "CPU <n>" -> value sorted by n, as the
\* sequence of its items <<n, value>>.  The items kept have "avg" and "60" in
\* the key, a CPU number in it and a value float() accepts; a later item of
\* data with the same n replaces the value of an earlier one
extract_cpu_metrics(data) ==
    LET items == {n \in 1..Len(data.d) :
                     /\ FindFrom(data.d[n][1].s, <<"a", "v", "g">>, 1) # 0
                     /\ FindFrom(data.d[n][1].s, <<"6", "0">>, 1) # 0
                     /\ CpuNumber(data.d[n][1].s) >= 0
                     /\ Call("Float", <<data.d[n][2]>>).ok}
        lastOf(c) == CHOOSE n \in items :
                        /\ CpuNumber(data.d[n][1].s) = c
                        /\ \A k \in items : CpuNumber(data.d[k][1].s) = c => k <= n
        \* the pairs <<CPU number, value>> in ascending order of the numbers
        RECURSIVE Sorted(_)
        Sorted(nums) ==
            IF nums = {} THEN <<>>
            ELSE LET least == CHOOSE a \in nums : \A b \in nums : a <= b
                 IN  <<<<least, Call("Float", <<data.d[lastOf(least)][2]>>).val>>>> \o
                     Sorted(nums \ {least})
    IN  Sorted({CpuNumber(data.d[n][1].s) : n \in items})

\* sum(cpu_metrics.values()) / len(cpu_metrics), else find_metric with the
\* pattern r"avg.*cpu.*60"; sum adds
\* from the int 0, one addition after the other, left to right
CpuAvg(data, cpu_metrics) ==
    LET RECURSIVE Sum(_)
        Sum(n) == IF n = 0 THEN Call("FloatOfInt", <<0>>)
                  ELSE Call("FloatAdd", <<Sum(n - 1), cpu_metrics[n][2]>>)
    IN  IF cpu_metrics # <<>>
        THEN Call("FloatDivInt", <<Sum(Len(cpu_metrics)), Len(cpu_metrics)>>)
        ELSE Call("find_metric", <<data, {<< <<"a", "v", "g">>, <<"c", "p", "u">>, <<"6", "0">> >>},
                         <<>>>>)

\* the values main() computes from the data it read, with the patterns
\* r"network.*egress|egress" and r"memory.*cache|memory.*caching|cache"
DashMetrics(data) ==
    The({[network_egress |->
              Call("find_metric", <<data,
                          {<< <<"n", "e", "t", "w", "o", "r", "k">>,
                              <<"e", "g", "r", "e", "s", "s">> >>,
                           << <<"e", "g", "r", "e", "s", "s">> >>},
                          <<KeyPercentNetworkEgress,
                            PyStr(<<"n", "e", "t", "w", "o", "r", "k", "-", "e", "g", "r",
                                    "e", "s", "s">>)>>>>),
          memory_cache |->
              Call("find_metric", <<data,
                          {<< <<"m", "e", "m", "o", "r", "y">>, <<"c", "a", "c", "h", "e">> >>,
                           << <<"m", "e", "m", "o", "r", "y">>,
                              <<"c", "a", "c", "h", "i", "n", "g">> >>,
                           << <<"c", "a", "c", "h", "e">> >>},
                          <<KeyPercentMemoryCache,
                            PyStr(<<"p", "e", "r", "c", "e", "n", "t", "-", "m", "e", "m",
                                    "o", "r", "y", "-", "c", "a", "c", "h", "i", "n",
                                    "g">>)>>>>),
          cpu_avg |-> Call("CpuAvg", <<data, cpu_metrics>>),
          cpu_multi |-> cpu_metrics] :
         cpu_metrics \in {Call("extract_cpu_metrics", <<data>>)}})

\* read_metrics_from_redis(key) on a client with decode_responses=True:
\* None for a missing key, for a GET that raises (the store is unreachable,
\* or the value is not UTF-8) and for text that is not JSON
read_metrics_from_redis_Uncaught(up, raw) ==
    IF ~up THEN [t |-> "raised"]
    ELSE IF raw = PyNone THEN PyNone
    ELSE IF ~Utf8Decode(raw.y).ok THEN [t |-> "raised"]
    ELSE LET r == Call("Loads", <<Utf8Decode(raw.y).val.s>>)
         IN  IF r.ok THEN r.val ELSE [t |-> "raised"]

read_metrics_from_redis(up, raw) ==
    IF ~up THEN PyNone
    ELSE IF raw = PyNone THEN PyNone
    ELSE IF ~Utf8Decode(raw.y).ok THEN PyNone
    ELSE LET r == Call("Loads", <<Utf8Decode(raw.y).val.s>>)
         IN  IF r.ok THEN r.val ELSE PyNone

\* the operator named op applied to the arguments args
Call(op, args) ==
    The({CASE op = "BTimes10Pow" -> BTimes10Pow(x[1], x[2])
           [] op = "BDiv10Pow" -> BDiv10Pow(x[1], x[2], x[3])
           [] op = "BDecimal" -> BDecimal(x[1])
           [] op = "BFromDecimal" -> BFromDecimal(x[1])
           [] op = "FloatRound" -> FloatRound(x[1], x[2], x[3], x[4])
           [] op = "FloatOfInt" -> FloatOfInt(x[1])
           [] op = "FloatOfDecimal" -> FloatOfDecimal(x[1], x[2], x[3])
           [] op = "FloatAdd" -> FloatAdd(x[1], x[2])
           [] op = "FloatDivInt" -> FloatDivInt(x[1], x[2])
           [] op = "FloatRepr" -> FloatRepr(x[1])
           [] op = "Dumps" -> Dumps(x[1])
           [] op = "Loads" -> Loads(x[1])
           [] op = "ParseValue" -> ParseValue(x[1], x[2])
           [] op = "FloatParse" -> FloatParse(x[1])
           [] op = "Float" -> Float(x[1])
           [] op = "parse_input" -> parse_input(x[1])
           [] op = "HandlerCall" -> HandlerCall(x[1], x[2])
           [] op = "PublishedFor" -> PublishedFor(x[1])
           [] op = "ParsedInput" -> ParsedInput(x[1])
           [] op = "find_metric" -> find_metric(x[1], x[2], x[3])
           [] op = "extract_cpu_metrics" -> extract_cpu_metrics(x[1])
           [] op = "CpuAvg" -> CpuAvg(x[1], x[2])
           [] op = "read_metrics_from_redis" -> read_metrics_from_redis(x[1], x[2])
           [] op = "DashMetrics" -> DashMetrics(x[1]) :
         x \in {args}})

\* a mapping with no key
EmptyMap == [k \in {} |-> <<>>]

\* d.get(key, default)
MapGet(d, key, default) == IF key \in DOMAIN d THEN d[key] ELSE default

\* d[key] = value
MapSet(d, key, value) == [k \in DOMAIN d \cup {key} |-> IF k = key THEN value ELSE d[k]]

\* the series kept without the cut to the latest 500
Append_Uncut(state, name, key, record) ==
    LET all == MapGet(state, name, EmptyMap)
        history == MapGet(all, key, <<>>)
    IN  IF record = PyNone THEN MapSet(state, name, MapSet(all, key, history))
        ELSE MapSet(state, name, MapSet(all, key, Append(history, record)))

\* session_state[name].setdefault(key, []), then the append of record (None:
\* no append) and the cut to the latest 500 when the series has grown past it
AppendLatest(state, name, key, record) ==
    LET all == MapGet(state, name, EmptyMap)
        history == MapGet(all, key, <<>>)
    IN  IF record = PyNone THEN MapSet(state, name, MapSet(all, key, history))
        ELSE LET grown == Append(history, record)
                 cut == IF Len(grown) > HISTORY_LIMIT
                        THEN SubSeq(grown, Len(grown) - HISTORY_LIMIT + 1, Len(grown))
                        ELSE grown
             IN  MapSet(state, name, MapSet(all, key, cut))

\* update_history(key, value) at the time ts
update_history(state, key, value, ts) ==
    AppendLatest(state, "history", key,
                 IF value # PyNone THEN [ts |-> ts, value |-> value] ELSE PyNone)

\* update_multi_history(key, values) at the time ts
update_multi_history(state, key, values, ts) ==
    AppendLatest(state, "history_multi", key,
                 IF values # <<>> THEN [ts |-> ts, values |-> values] ELSE PyNone)

----------------------------------------------------------------------------
(* What the key the dashboard reads can hold *)

\* {"network-egress": 100, "percent-memory-cache": "n/a",
\*  "avg-util-cpu1-60sec": 26, "avg-util-cpu0-60sec": 25}
RawMetrics ==
    PyBytes(<<"{", QUOTE, "n", "e", "t", "w", "o", "r", "k", "-", "e", "g",
              "r", "e", "s", "s", QUOTE, ":", " ", "1", "0", "0", ",", " ",
              QUOTE, "p", "e", "r", "c", "e", "n", "t", "-", "m", "e", "m",
              "o", "r", "y", "-", "c", "a", "c", "h", "e", QUOTE, ":", " ",
              QUOTE, "n", "/", "a", QUOTE, ",", " ", QUOTE, "a", "v", "g",
              "-", "u", "t", "i", "l", "-", "c", "p", "u", "1", "-", "6",
              "0", "s", "e", "c", QUOTE, ":", " ", "2", "6", ",", " ", QUOTE,
              "a", "v", "g", "-", "u", "t", "i", "l", "-", "c", "p", "u",
              "0", "-", "6", "0", "s", "e", "c", QUOTE, ":", " ", "2", "5",
              "}">>)

\* what other clients of the store leave under the key the dashboard reads
DashValues ==
    {PyNone, RawMetrics, PyBytes(<<"{", QUOTE, "y", QUOTE, ":", " ", "2", "}">>),
     RawList, RawNull, RawTruncated, RawNotUtf8}

\* build_mock_payload() of seed_mock_redis.py: the keys, and the float
\* literals 100.00, 100.00, 25.45, 25.89, 0.34 and 1.12
build_mock_payload ==
    LET AvgUtilCpu(n) ==
            PyStr(<<"a", "v", "g", "-", "u", "t", "i", "l", "-", "c", "p", "u", n, "-",
                    "6", "0", "s", "e", "c">>)
        keys == <<KeyPercentNetworkEgress, KeyPercentMemoryCache, AvgUtilCpu("0"),
                  AvgUtilCpu("1"), AvgUtilCpu("2"), AvgUtilCpu("3")>>
        literals == <<<<"1", "0", "0", ".", "0", "0">>, <<"1", "0", "0", ".", "0", "0">>,
                      <<"2", "5", ".", "4", "5">>, <<"2", "5", ".", "8", "9">>,
                      <<"0", ".", "3", "4">>, <<"1", ".", "1", "2">>>>
    IN  PyDict(<<>> \o [n \in 1..6 |-> <<keys[n], Call("FloatParse", <<literals[n]>>).val>>])

\* what the seeding script stores: json.dumps(payload), sent as UTF-8
RawSeed == Utf8Encode(Call("Dumps", <<build_mock_payload>>).text)

\* how many refreshes of the dashboard a run of the model follows
MaxRefreshes == 2

HistoryKeys == {"network_egress", "memory_cache", "cpu_avg"}

\* the session after n refreshes that each appended a point to every series
\* (the latest at time 0), cut as update_history cuts it; n = 0: a new session
SessionAfter(n) ==
    IF n = 0 THEN EmptyMap
    ELSE The({[name \in {"history", "history_multi"} |->
                 IF name = "history"
                 THEN [key \in HistoryKeys |->
                         [k \in 1..n |-> [ts |-> k - n, value |-> one]]]
                 ELSE [key \in {"cpu_multi"} |->
                         [k \in 1..n |-> [ts |-> k - n, values |-> <<<<0, one>>>>]]]] :
              one \in {Call("FloatOfInt", <<1>>)}})

\* the dashboard before its first run: nothing read, nothing shown.  at is
\* where a run of main() is: "start" between two runs, "read" between the PING
\* of check_redis_connection and the GET of read_metrics_from_redis
NoRun ==
    [runs |-> 0, at |-> "start", data |-> PyNone, shown |-> "nothing",
     conn_ok |-> FALSE, metrics |-> PyNone]

----------------------------------------------------------------------------
(* State *)

VARIABLES
    environ,         \* os.environ of the process
    file,            \* the handler file: PyNone when absent, else [src, mtime]
    store,           \* the key-value store: key -> bytes or PyNone
    store_up,        \* whether the store answers the runtime's commands
    now,             \* the clock read by time.time()
    pc,              \* where main() is: config, load, mtime, get, execute,
                     \* publish, sleep, exited
    exit_code,       \* PyNone while running, else the code of sys.exit
    host, port_str, port, input_key, output_key,
    usermodule,      \* the module object exec_module ran: PyNone until it runs
    handler,         \* the loaded callable: PyNone, else the file version it is from
    context,         \* the Context object, PyNone until constructed
    client,          \* the redis.Redis client, PyNone until constructed
    last_raw_value,  \* the change marker
    raw_value, payload, result,
    cycle,           \* what the current loop iteration has done so far
    session_state,   \* the dashboard's st.session_state
    dash,            \* the dashboard's latest run: what it read and showed
    dash_log         \* every point the dashboard appended, series by series

envVars == <<environ, file, store, store_up, now>>

configVars == <<host, port_str, port, input_key, output_key>>

loopVars == <<last_raw_value, raw_value, payload, result, cycle>>

vars ==
    <<environ, file, store, store_up, now, pc, exit_code, host, port_str, port,
      input_key, output_key, usermodule, handler, context, client, last_raw_value,
      raw_value, payload, result, cycle, session_state, dash, dash_log>>

dashVars == <<session_state, dash, dash_log>>

\* the log of a loop iteration: which key was read, how the iteration ended,
\* whether the handler was called, the key of the SET issued (PyNone: none),
\* the durations slept, the time when it began
NoCycle ==
    [outcome |-> "none", get_key |-> PyNone, called |-> FALSE, set_key |-> PyNone,
     sleeps |-> <<>>, start |-> 0]

NewCycle(outcome) ==
    [outcome |-> outcome, get_key |-> input_key, called |-> FALSE, set_key |-> PyNone,
     sleeps |-> <<>>, start |-> now]

\* the process at the entry of main(), with its surroundings apart from the
\* contents of the store
InitProcess ==
    /\ environ \in Environments
    /\ file \in ({PyNone} \cup {[src |-> m, mtime |-> 0] : m \in Modules})
    /\ store_up = TRUE
    /\ now = 0
    /\ pc = "config"
    /\ exit_code = PyNone
    /\ host = EnvironGet(environ, "REDIS_HOST",
                         PyStr(<<"l", "o", "c", "a", "l", "h", "o", "s", "t">>))
    /\ port_str = EnvironGet(environ, "REDIS_PORT", DefaultPort)
    /\ input_key = EnvironGet(environ, "REDIS_INPUT_KEY", DefaultInputKey)
    /\ output_key = environ["REDIS_OUTPUT_KEY"]
    /\ port = PyNone
    /\ usermodule = PyNone
    /\ handler = PyNone
    /\ context = PyNone
    /\ client = PyNone
    /\ last_raw_value = PyNone
    /\ raw_value = PyNone
    /\ payload = PyNone
    /\ result = PyNone
    /\ cycle = NoCycle

\* no dashboard session
NoDashboard ==
    /\ session_state = EmptyMap
    /\ dash = NoRun
    /\ dash_log = EmptyMap

\* the process starts on an empty store
Init ==
    /\ store = [k \in Keys |-> PyNone]
    /\ InitProcess
    /\ NoDashboard

\* sys.exit(1), or the interpreter ending on an uncaught exception
Exit ==
    /\ pc' = "exited"
    /\ exit_code' = PyInt(1)

----------------------------------------------------------------------------
(* Startup: main() up to the loop *)

ConfigMissingOutputKey ==
    /\ pc = "config"
    /\ output_key = PyNone
    /\ Exit
    /\ UNCHANGED <<dashVars, envVars, configVars, usermodule, handler, context, client, loopVars>>

\* an unparsable port replaced by the default instead of ending the process
ConfigInvalidPort_Fallback ==
    /\ pc = "config"
    /\ output_key # PyNone
    /\ ~PyIntParse(port_str.s).ok
    /\ port' = PyIntParse(DefaultPort.s).val
    /\ pc' = "load"
    /\ UNCHANGED <<dashVars, envVars, exit_code, host, port_str, input_key, output_key,
                   usermodule, handler, context, client, loopVars>>

\* the port parsed only after the user module has been loaded
ConfigInvalidPort_AfterLoad ==
    /\ pc = "config"
    /\ output_key # PyNone
    /\ ~PyIntParse(port_str.s).ok
    /\ usermodule' = IF file = PyNone THEN PyNone
                     ELSE [t |-> "module", src |-> file.src]
    /\ Exit
    /\ UNCHANGED <<dashVars, envVars, configVars, handler, context, client, loopVars>>

ConfigInvalidPort ==
    /\ pc = "config"
    /\ output_key # PyNone
    /\ ~PyIntParse(port_str.s).ok
    /\ Exit
    /\ UNCHANGED <<dashVars, envVars, configVars, usermodule, handler, context, client, loopVars>>

ConfigOk ==
    /\ pc = "config"
    /\ output_key # PyNone
    /\ PyIntParse(port_str.s).ok
    /\ port' = PyIntParse(port_str.s).val
    /\ pc' = "load"
    /\ UNCHANGED <<dashVars, envVars, exit_code, host, port_str, input_key, output_key,
                   usermodule, handler, context, client, loopVars>>

\* load_user_handler: os.path.isfile(path) is false
LoadNotFound ==
    /\ pc = "load"
    /\ file = PyNone
    /\ Exit
    /\ UNCHANGED <<dashVars, envVars, configVars, usermodule, handler, context, client, loopVars>>

\* load_user_handler: exec_module raises
LoadExecFails ==
    /\ pc = "load"
    /\ file # PyNone
    /\ ModuleExecRaises(file.src)
    /\ usermodule' = [t |-> "module", src |-> file.src]
    /\ Exit
    /\ UNCHANGED <<dashVars, envVars, configVars, handler, context, client, loopVars>>

\* load_user_handler: the module has no callable named handler
LoadNotCallable ==
    /\ pc = "load"
    /\ file # PyNone
    /\ ~ModuleExecRaises(file.src)
    /\ ~ModuleHandlerCallable(file.src)
    /\ usermodule' = [t |-> "module", src |-> file.src]
    /\ Exit
    /\ UNCHANGED <<dashVars, envVars, configVars, handler, context, client, loopVars>>

\* load_user_handler returns the handler of the file as it is now
LoadOk ==
    /\ pc = "load"
    /\ file # PyNone
    /\ ~ModuleExecRaises(file.src)
    /\ ModuleHandlerCallable(file.src)
    /\ usermodule' = [t |-> "module", src |-> file.src]
    /\ handler' = [t |-> "function", src |-> file.src, mtime |-> file.mtime]
    /\ pc' = "mtime"
    /\ UNCHANGED <<dashVars, envVars, exit_code, configVars, context, client, loopVars>>

\* os.path.getmtime, Context(...), redis.Redis(...), last_raw_value = None
CreateContext ==
    /\ pc = "mtime"
    /\ context' = [host |-> host, port |-> port, input_key |-> input_key,
                   output_key |-> output_key, function_getmtime |-> file.mtime,
                   last_execution |-> PyNone, env |-> PyDict(<<>>)]
    /\ client' = [host |-> host, port |-> port, decode_responses |-> FALSE]
    /\ last_raw_value' = PyNone
    /\ pc' = "get"
    /\ UNCHANGED <<dashVars, envVars, exit_code, configVars, usermodule, handler, raw_value, payload,
                   result, cycle>>

----------------------------------------------------------------------------
(* The poll loop: one iteration is a GET (with change detection and        *)
(* decoding), the handler call (with the check of its result), the         *)
(* publish, and the sleep every path ends with.                            *)

\* a loop that gives up on the first GET that raises
GetFails_GivesUp ==
    /\ pc = "get"
    /\ ~store_up
    /\ cycle' = NewCycle("get_failed")
    /\ Exit
    /\ UNCHANGED <<dashVars, envVars, configVars, usermodule, handler, context, client,
                   last_raw_value, raw_value, payload, result>>

\* client.get(input_key) raises: log, sleep, continue
GetFails ==
    /\ pc = "get"
    /\ ~store_up
    /\ cycle' = NewCycle("get_failed")
    /\ pc' = "sleep"
    /\ UNCHANGED <<dashVars, envVars, exit_code, configVars, usermodule, handler, context, client,
                   last_raw_value, raw_value, payload, result>>

\* the loop without change detection: an unchanged value is processed again
GetUnchanged_NoDetection ==
    /\ pc = "get"
    /\ store_up
    /\ store[input_key] = last_raw_value
    /\ raw_value' = store[input_key]
    /\ payload' = Call("ParsedInput", <<store[input_key]>>)
    /\ IF Call("ParsedInput", <<store[input_key]>>) = PyNone
       THEN cycle' = NewCycle("decode_failed") /\ pc' = "sleep"
       ELSE cycle' = NewCycle("running") /\ pc' = "execute"
    /\ UNCHANGED <<dashVars, envVars, exit_code, configVars, usermodule, handler, context, client,
                   last_raw_value, result>>

\* the value read equals the change marker: sleep, continue
GetUnchanged ==
    /\ pc = "get"
    /\ store_up
    /\ store[input_key] = last_raw_value
    /\ raw_value' = store[input_key]
    /\ cycle' = NewCycle("unchanged")
    /\ pc' = "sleep"
    /\ UNCHANGED <<dashVars, envVars, exit_code, configVars, usermodule, handler, context, client,
                   last_raw_value, payload, result>>

\* "continue" without the sleep in front of it: the next GET follows at once
GetDecodeFails_NoSleep ==
    /\ pc = "get"
    /\ store_up
    /\ store[input_key] # last_raw_value
    /\ Call("ParsedInput", <<store[input_key]>>) = PyNone
    /\ raw_value' = store[input_key]
    /\ last_raw_value' = store[input_key]
    /\ payload' = PyNone
    /\ cycle' = NewCycle("decode_failed")
    /\ pc' = "get"
    /\ UNCHANGED <<dashVars, envVars, exit_code, configVars, usermodule, handler, context, client, result>>

\* the value read differs: it becomes the change marker; parse_input gives None
GetDecodeFails ==
    /\ pc = "get"
    /\ store_up
    /\ store[input_key] # last_raw_value
    /\ Call("ParsedInput", <<store[input_key]>>) = PyNone
    /\ raw_value' = store[input_key]
    /\ last_raw_value' = store[input_key]
    /\ payload' = PyNone
    /\ cycle' = NewCycle("decode_failed")
    /\ pc' = "sleep"
    /\ UNCHANGED <<dashVars, envVars, exit_code, configVars, usermodule, handler, context, client, result>>

\* the value read differs: it becomes the change marker; parse_input gives a payload
GetChanged ==
    /\ pc = "get"
    /\ store_up
    /\ store[input_key] # last_raw_value
    /\ Call("ParsedInput", <<store[input_key]>>) # PyNone
    /\ raw_value' = store[input_key]
    /\ last_raw_value' = store[input_key]
    /\ payload' = Call("ParsedInput", <<store[input_key]>>)
    /\ cycle' = NewCycle("running")
    /\ pc' = "execute"
    /\ UNCHANGED <<dashVars, envVars, exit_code, configVars, usermodule, handler, context, client, result>>

\* a retry-on-failure loop: a handler failure forgets the change marker
HandlerRaises_Retry ==
    /\ pc = "execute"
    /\ Call("HandlerCall", <<handler.src, payload>>).kind = "raise"
    /\ cycle' = [cycle EXCEPT !.called = TRUE, !.outcome = "handler_raised"]
    /\ last_raw_value' = PyNone
    /\ pc' = "sleep"
    /\ UNCHANGED <<dashVars, envVars, exit_code, configVars, usermodule, handler, context, client,
                   raw_value, payload, result>>

\* handler(payload, context) raises an Exception: log, sleep, continue
HandlerRaises ==
    /\ pc = "execute"
    /\ Call("HandlerCall", <<handler.src, payload>>).kind = "raise"
    /\ cycle' = [cycle EXCEPT !.called = TRUE, !.outcome = "handler_raised"]
    /\ pc' = "sleep"
    /\ UNCHANGED <<dashVars, envVars, exit_code, configVars, usermodule, handler, context, client,
                   last_raw_value, raw_value, payload, result>>

\* handler(payload, context) raises a BaseException that "except Exception"
\* does not catch: it leaves main() and ends the process
HandlerAborts ==
    /\ pc = "execute"
    /\ Call("HandlerCall", <<handler.src, payload>>).kind = "abort"
    /\ cycle' = [cycle EXCEPT !.called = TRUE, !.outcome = "aborted"]
    /\ Exit
    /\ UNCHANGED <<dashVars, envVars, configVars, usermodule, handler, context, client,
                   last_raw_value, raw_value, payload, result>>

\* the loop without the isinstance check: any returned value is published
HandlerReturnsNonDict_NoCheck ==
    /\ pc = "execute"
    /\ Call("HandlerCall", <<handler.src, payload>>).kind = "return"
    /\ ~IsDict(Call("HandlerCall", <<handler.src, payload>>).val)
    /\ result' = Call("HandlerCall", <<handler.src, payload>>).val
    /\ cycle' = [cycle EXCEPT !.called = TRUE]
    /\ pc' = "publish"
    /\ UNCHANGED <<dashVars, envVars, exit_code, configVars, usermodule, handler, context, client,
                   last_raw_value, raw_value, payload>>

\* the handler returns something that is not a dict: warn, sleep, continue
HandlerReturnsNonDict ==
    /\ pc = "execute"
    /\ Call("HandlerCall", <<handler.src, payload>>).kind = "return"
    /\ ~IsDict(Call("HandlerCall", <<handler.src, payload>>).val)
    /\ result' = Call("HandlerCall", <<handler.src, payload>>).val
    /\ cycle' = [cycle EXCEPT !.called = TRUE, !.outcome = "bad_result"]
    /\ pc' = "sleep"
    /\ UNCHANGED <<dashVars, envVars, exit_code, configVars, usermodule, handler, context, client,
                   last_raw_value, raw_value, payload>>

\* a hot-reloading loop: the call goes to the handler of the file as it is now
HandlerReturnsDict_Reloads ==
    /\ pc = "execute"
    /\ Call("HandlerCall", <<file.src, payload>>).kind = "return"
    /\ IsDict(Call("HandlerCall", <<file.src, payload>>).val)
    /\ result' = Call("HandlerCall", <<file.src, payload>>).val
    /\ cycle' = [cycle EXCEPT !.called = TRUE]
    /\ pc' = "publish"
    /\ UNCHANGED <<dashVars, envVars, exit_code, configVars, usermodule, handler, context, client,
                   last_raw_value, raw_value, payload>>

\* the handler returns a dict
HandlerReturnsDict ==
    /\ pc = "execute"
    /\ Call("HandlerCall", <<handler.src, payload>>).kind = "return"
    /\ IsDict(Call("HandlerCall", <<handler.src, payload>>).val)
    /\ result' = Call("HandlerCall", <<handler.src, payload>>).val
    /\ cycle' = [cycle EXCEPT !.called = TRUE]
    /\ pc' = "publish"
    /\ UNCHANGED <<dashVars, envVars, exit_code, configVars, usermodule, handler, context, client,
                   last_raw_value, raw_value, payload>>

\* json.dumps(result) raises: log, then the sleep at the end of the loop body
PublishEncodeFails ==
    /\ pc = "publish"
    /\ ~Call("Dumps", <<result>>).ok
    /\ cycle' = [cycle EXCEPT !.outcome = "encode_failed"]
    /\ pc' = "sleep"
    /\ UNCHANGED <<dashVars, envVars, exit_code, configVars, usermodule, handler, context, client,
                   last_raw_value, raw_value, payload, result>>

\* the timestamp taken although the SET raised
PublishSetFails_Stamps ==
    /\ pc = "publish"
    /\ Call("Dumps", <<result>>).ok
    /\ ~store_up
    /\ context' = [context EXCEPT !.last_execution = PyInt(now)]
    /\ cycle' = [cycle EXCEPT !.set_key = output_key, !.outcome = "set_failed"]
    /\ pc' = "sleep"
    /\ UNCHANGED <<dashVars, envVars, exit_code, configVars, usermodule, handler, client,
                   last_raw_value, raw_value, payload, result>>

\* client.set(output_key, output_payload) raises: log, then the sleep
PublishSetFails ==
    /\ pc = "publish"
    /\ Call("Dumps", <<result>>).ok
    /\ ~store_up
    /\ cycle' = [cycle EXCEPT !.set_key = output_key, !.outcome = "set_failed"]
    /\ pc' = "sleep"
    /\ UNCHANGED <<dashVars, envVars, exit_code, configVars, usermodule, handler, context, client,
                   last_raw_value, raw_value, payload, result>>

\* the payload published in place of the handler's result
PublishOk_WritesPayload ==
    /\ pc = "publish"
    /\ Call("Dumps", <<result>>).ok
    /\ store_up
    /\ store' = [store EXCEPT ![output_key] = Utf8Encode(Call("Dumps", <<payload>>).text)]
    /\ context' = [context EXCEPT !.last_execution = PyInt(now)]
    /\ cycle' = [cycle EXCEPT !.set_key = output_key, !.outcome = "published"]
    /\ pc' = "sleep"
    /\ UNCHANGED <<dashVars, environ, file, store_up, now, exit_code, configVars, usermodule, handler,
                   client, last_raw_value, raw_value, payload, result>>

\* the SET succeeds; context.last_execution = time.time()
PublishOk ==
    /\ pc = "publish"
    /\ Call("Dumps", <<result>>).ok
    /\ store_up
    /\ store' = [store EXCEPT ![output_key] = Utf8Encode(Call("Dumps", <<result>>).text)]
    /\ context' = [context EXCEPT !.last_execution = PyInt(now)]
    /\ cycle' = [cycle EXCEPT !.set_key = output_key, !.outcome = "published"]
    /\ pc' = "sleep"
    /\ UNCHANGED <<dashVars, environ, file, store_up, now, exit_code, configVars, usermodule, handler,
                   client, last_raw_value, raw_value, payload, result>>

\* time.sleep(POLL_INTERVAL_SECONDS), then the next iteration.  The iteration
\* is over: its log is closed, keeping only the sleep, and result, which no
\* later iteration reads before assigning it, is cleared.
Sleep ==
    /\ pc = "sleep"
    /\ cycle' = [NoCycle EXCEPT !.outcome = "slept",
                                !.sleeps = Append(cycle.sleeps, POLL_INTERVAL_SECONDS)]
    /\ result' = PyNone
    /\ pc' = "get"
    /\ UNCHANGED <<dashVars, envVars, exit_code, configVars, usermodule, handler, context, client,
                   last_raw_value, raw_value, payload>>

----------------------------------------------------------------------------
(* The environment, while the process runs *)

progVars ==
    <<pc, exit_code, host, port_str, port, input_key, output_key, usermodule, handler,
      context, client, last_raw_value, raw_value, payload, result, cycle>>

\* an external producer stores a value under the input key
ProducerSet ==
    /\ pc # "exited"
    /\ \E v \in RawInputs :
        /\ store[input_key] # v
        /\ store' = [store EXCEPT ![input_key] = v]
    /\ UNCHANGED <<dashVars, environ, file, store_up, now, progVars>>

\* the input key is deleted (or expires)
ProducerDelete ==
    /\ pc # "exited"
    /\ store[input_key] # PyNone
    /\ store' = [store EXCEPT ![input_key] = PyNone]
    /\ UNCHANGED <<dashVars, environ, file, store_up, now, progVars>>

StoreGoesDown ==
    /\ pc # "exited"
    /\ store_up
    /\ store_up' = FALSE
    /\ UNCHANGED <<dashVars, environ, file, store, now, progVars>>

StoreComesUp ==
    /\ pc # "exited"
    /\ ~store_up
    /\ store_up' = TRUE
    /\ UNCHANGED <<dashVars, environ, file, store, now, progVars>>

Tick ==
    /\ pc # "exited"
    /\ now < MaxTime
    /\ now' = now + 1
    /\ UNCHANGED <<dashVars, environ, file, store, store_up, progVars>>

\* an external writer replaces the handler file; its modification time moves on
WriteHandlerFile ==
    /\ pc # "exited"
    /\ file # PyNone
    /\ file.mtime < MaxFileWrites
    /\ file' = [src |-> UpdatedModule, mtime |-> file.mtime + 1]
    /\ UNCHANGED <<dashVars, environ, store, store_up, now, progVars>>

----------------------------------------------------------------------------
(* The dashboard: main() runs once per refresh, from top to bottom.  The   *)
(* time of the run with number n is n.                                     *)

runtimeVars == <<environ, file, now, progVars>>

\* the four update calls of main()
DashUpdate(state, m, ts) ==
    update_multi_history(
        update_history(
            update_history(
                update_history(state, "network_egress", m.network_egress, ts),
                "memory_cache", m.memory_cache, ts),
            "cpu_avg", m.cpu_avg, ts),
        "cpu_multi", m.cpu_multi, ts)

\* the same four appends with nothing ever cut
DashLogged(log, m, ts) ==
    LET single(l, key) ==
            IF m[key] = PyNone THEN l
            ELSE Append_Uncut(l, "history", key, [ts |-> ts, value |-> m[key]])
        singles == single(single(single(log, "network_egress"), "memory_cache"),
                          "cpu_avg")
    IN  IF m.cpu_multi = <<>> THEN singles
        ELSE Append_Uncut(singles, "history_multi", "cpu_multi",
                          [ts |-> ts, values |-> m.cpu_multi])

\* what a run of main() reads and computes, for the store up or down and for
\* every value the key can hold, computed once: data is
\* read_metrics_from_redis(redis_key), and metrics the values main() computes
\* from data when it is an object
DashRuns ==
    {The({[up |-> up, raw |-> v, data |-> data,
           metrics |-> IF IsDict(data) THEN Call("DashMetrics", <<data>>) ELSE PyNone] :
          data \in {Call("read_metrics_from_redis", <<up, v>>)}}) :
     up \in BOOLEAN, v \in DashValues \cup {RawSeed}}

\* the run of main() on the store as it is when the GET is sent
DashRun == CHOOSE r \in DashRuns : r.up = store_up /\ r.raw = store[DashKey]

\* main() up to the GET: check_redis_connection() pings the store on a
\* client of its own and the outcome goes to the sidebar; the page of the
\* run before is gone
DashPing ==
    /\ dash.at = "start"
    /\ dash.runs < MaxRefreshes
    /\ dash' = [runs |-> dash.runs, at |-> "read", data |-> PyNone,
                shown |-> "nothing", conn_ok |-> store_up, metrics |-> PyNone]
    /\ UNCHANGED <<runtimeVars, store, store_up, session_state, dash_log>>

\* the record of a run that ended
DashDone(data, shown, metrics) ==
    [runs |-> dash.runs + 1, at |-> "start", data |-> data, shown |-> shown,
     conn_ok |-> dash.conn_ok, metrics |-> metrics]

\* data is None: the warning is shown and main() returns
DashNoData ==
    /\ dash.at = "read"
    /\ \E run \in {DashRun} :
        /\ run.data = PyNone
        /\ dash' = DashDone(PyNone, "warning", PyNone)
    /\ UNCHANGED <<runtimeVars, store, store_up, session_state, dash_log>>

\* data is JSON but no object: data.items() raises in find_metric
DashRaises ==
    /\ dash.at = "read"
    /\ \E run \in {DashRun} :
        /\ run.data # PyNone
        /\ ~IsDict(run.data)
        /\ dash' = DashDone(run.data, "exception", PyNone)
    /\ UNCHANGED <<runtimeVars, store, store_up, session_state, dash_log>>

\* data is an object: the metrics are extracted, appended to the histories
\* and shown
DashRenders ==
    /\ dash.at = "read"
    /\ \E run \in {DashRun} :
        /\ run.data # PyNone
        /\ IsDict(run.data)
        /\ dash' = DashDone(run.data, "metrics", run.metrics)
        /\ session_state' = DashUpdate(session_state, run.metrics, dash.runs + 1)
        /\ dash_log' = DashLogged(dash_log, run.metrics, dash.runs + 1)
    /\ UNCHANGED <<runtimeVars, store, store_up>>

\* another client of the store writes the key the dashboard reads, or
\* deletes it
DashKeyWritten ==
    /\ \E v \in DashValues :
        /\ store[DashKey] # v
        /\ store' = [store EXCEPT ![DashKey] = v]
    /\ UNCHANGED <<runtimeVars, store_up, dashVars>>

\* main() of seed_mock_redis.py: client.set(args.key, json.dumps(payload));
\* with the store unreachable the script ends in the exception of the SET
SeedMockRedis ==
    /\ store_up
    /\ \E key \in {DefaultSeedKey, DashKey} :
        /\ store[key] # RawSeed
        /\ store' = [store EXCEPT ![key] = RawSeed]
    /\ UNCHANGED <<runtimeVars, store_up, dashVars>>

Dashboard ==
    \/ DashPing
    \/ DashNoData
    \/ DashRaises
    \/ DashRenders

----------------------------------------------------------------------------

Startup ==
    \/ ConfigMissingOutputKey
    \/ ConfigInvalidPort
    \/ ConfigOk
    \/ LoadNotFound
    \/ LoadExecFails
    \/ LoadNotCallable
    \/ LoadOk
    \/ CreateContext

Loop ==
    \/ GetFails
    \/ GetUnchanged
    \/ GetDecodeFails
    \/ GetChanged
    \/ HandlerRaises
    \/ HandlerAborts
    \/ HandlerReturnsNonDict
    \/ HandlerReturnsDict
    \/ PublishEncodeFails
    \/ PublishSetFails
    \/ PublishOk
    \/ Sleep

Next ==
    \/ Startup
    \/ Loop
    \/ ProducerSet
    \/ ProducerDelete
    \/ StoreGoesDown
    \/ StoreComesUp
    \/ Tick
    \/ WriteHandlerFile

Spec == Init /\ [][Next]_vars

\* The runtime started on an input that no producer touches afterwards: what
\* the input key holds was written before the process began.
StaticInit ==
    /\ \E k \in Keys, v \in RawInputs \cup {PyNone} :
           store = [j \in Keys |-> IF j = k THEN v ELSE PyNone]
    /\ InitProcess
    /\ NoDashboard
    /\ store[input_key] # PyNone \/ store = [k \in Keys |-> PyNone]

StaticNext ==
    \/ Startup
    \/ Loop
    \/ StoreGoesDown
    \/ StoreComesUp
    \/ Tick
    \/ WriteHandlerFile

StaticSpec == StaticInit /\ [][StaticNext]_vars

\* The dashboard alone, in a session that is new or has refreshed before,
\* while the runtime is not running.
DashInit ==
    /\ store \in {[k \in Keys |-> IF k = DashKey THEN v ELSE PyNone] :
                     v \in DashValues \cup {RawSeed}}
    /\ InitProcess
    /\ environ = EnvDefaults
    /\ file = PyNone
    /\ session_state \in {SessionAfter(n) : n \in {0, HISTORY_LIMIT - 1, HISTORY_LIMIT}}
    /\ dash = NoRun
    /\ dash_log = session_state

DashNext ==
    \/ Dashboard
    \/ DashKeyWritten
    \/ SeedMockRedis
    \/ StoreGoesDown
    \/ StoreComesUp

DashSpec == DashInit /\ [][DashNext]_vars

FairSpec == Spec /\ WF_vars((Startup \/ Loop))

----------------------------------------------------------------------------
(* Vocabulary of the properties *)

InLoop == pc \in {"get", "execute", "publish", "sleep"}

\* this step is a GET that succeeded; raw_value' is the value it returned
GetSucceeds == pc = "get" /\ pc' # "get" /\ cycle'.outcome # "get_failed"

\* this step is the handler call
HandlerCalled == pc = "execute" /\ pc' # "execute"

\* this step is a publish whose SET succeeded
SetSucceeds == pc = "publish" /\ cycle'.outcome = "published"

\* the ways an iteration ends after the change marker has advanced
AfterAdvance ==
    {"decode_failed", "handler_raised", "bad_result", "encode_failed", "set_failed",
     "published"}

\* a value JSON represents as it is: None, bool, int, str, and lists and
\* string-keyed dicts of such values
RECURSIVE JsonNative(_)
JsonNative(v) ==
    CASE v.t \in {"None", "bool", "int", "str"} -> TRUE
      [] v.t = "list" -> \A k \in 1..Len(v.e) : JsonNative(v.e[k])
      [] v.t = "dict" ->
           \A k \in 1..Len(v.d) : v.d[k][1].t = "str" /\ JsonNative(v.d[k][2])
      [] OTHER -> FALSE

----------------------------------------------------------------------------
(* C1 *)

C1_SkipsUnchanged ==
    GetSucceeds /\ raw_value' = last_raw_value
        => /\ pc' = "sleep"
           /\ ~cycle'.called
           /\ cycle'.set_key = PyNone
           /\ store' = store

C1_UnchangedCycleIdle ==
    (pc = "sleep" /\ cycle.outcome = "unchanged")
        => (~cycle.called /\ cycle.set_key = PyNone /\ raw_value = last_raw_value)

\* C1: an iteration whose GET returns a value equal to the change marker
\* (initially None) goes straight to the sleep: the handler is not called and
\* no SET is issued, so a second read of an identical value does nothing.
C1_ChangeDetection == [][C1_SkipsUnchanged]_vars /\ []C1_UnchangedCycleIdle

\* a value was read a second time, unchanged, with a handler that had produced
\* output for it the first time
C1_Witness ==
    /\ pc = "sleep"
    /\ cycle.outcome = "unchanged"
    /\ raw_value = RawX1
    /\ handler.src = "transform"
    /\ store[output_key] # PyNone

----------------------------------------------------------------------------
(* C2 *)

C2_PublishedEncoding ==
    SetSucceeds => store'[output_key] = Utf8Encode(Call("Dumps", <<result>>).text)

C2_RoundTrip == SetSucceeds => Call("parse_input", <<store'[output_key]>>) = result

C2_RoundTripNative ==
    (SetSucceeds /\ JsonNative(result)) => Call("parse_input", <<store'[output_key]>>) = result

\* with distinct keys nothing but the runtime writes the output key, so what
\* the SET wrote is there when the iteration ends
C2_HeldAtEndOfCycle ==
    (pc = "sleep" /\ cycle.outcome = "published" /\ input_key # output_key)
        => store[output_key] = Utf8Encode(Call("Dumps", <<result>>).text)

\* C2 as claimed: when the handler returns a dict M and the SET succeeds, the
\* output key holds the JSON encoding of M, and decoding it gives M back.
C2_Original == [][C2_PublishedEncoding /\ C2_RoundTrip]_vars

\* C2 as amended: the output key holds the JSON encoding of M; decoding it
\* gives M back when M is JSON-native (string keys; values None, bool, int,
\* str, lists and string-keyed dicts of such).
C2_SuccessfulCycle ==
    [][C2_PublishedEncoding /\ C2_RoundTripNative]_vars /\ []C2_HeldAtEndOfCycle

\* the spec's scenario: {"x": 1} in, {"y": 2} out
C2_Witness ==
    /\ pc = "sleep"
    /\ cycle.outcome = "published"
    /\ payload = PyDict(<< <<PyStr(<<"x">>), PyInt(1)>> >>)
    /\ result = PyDict(<< <<PyStr(<<"y">>), PyInt(2)>> >>)
    /\ store[output_key] = PyBytes(<<"{", QUOTE, "y", QUOTE, ":", " ", "2", "}">>)

----------------------------------------------------------------------------
(* C3 *)

\* C3 as claimed: whatever the handler raises, the process keeps running, no
\* SET is issued in that iteration, and the iteration goes to its sleep.
C3_HandlerFailureIsolated ==
    (cycle.called /\ Call("HandlerCall", <<handler.src, payload>>).kind # "return")
        => (pc = "sleep" /\ exit_code = PyNone /\ cycle.set_key = PyNone)

----------------------------------------------------------------------------
(* C4 *)

C4_NonDictSkipsPublish ==
    (HandlerCalled
     /\ Call("HandlerCall", <<handler.src, payload>>).kind = "return"
     /\ ~IsDict(Call("HandlerCall", <<handler.src, payload>>).val))
        => /\ pc' = "sleep"
           /\ cycle'.set_key = PyNone
           /\ store' = store
           /\ context' = context

\* outside the publish step the loop writes neither the store nor the context
C4_OnlyPublishWrites ==
    (InLoop /\ pc' # pc /\ pc # "publish") => (store' = store /\ context' = context)

C4_BadResultCycleIdle ==
    (pc = "sleep" /\ cycle.outcome = "bad_result")
        => (cycle.set_key = PyNone /\ ~IsDict(result))

\* C4: when the handler returns a value that is not a dict, the iteration
\* issues no SET and none of its steps changes the output key or
\* context.last_execution.
C4_ResultShape ==
    [][C4_NonDictSkipsPublish /\ C4_OnlyPublishWrites]_vars /\ []C4_BadResultCycleIdle

\* a list came back after an earlier iteration had published
C4_Witness ==
    /\ pc = "sleep"
    /\ cycle.outcome = "bad_result"
    /\ result = PyList(<<PyInt(1)>>)
    /\ input_key # output_key
    /\ store[output_key] # PyNone
    /\ context.last_execution # PyNone

----------------------------------------------------------------------------
(* C5 *)

C5_BadConfig ==
    \/ environ["REDIS_OUTPUT_KEY"] = PyNone
    \/ ~PyIntParse(EnvironGet(environ, "REDIS_PORT", DefaultPort).s).ok

\* with an unusable configuration the process is still checking it or has
\* exited with code 1; it has loaded nothing and begun no iteration
C5_ConfigFatal ==
    C5_BadConfig
        => /\ pc \in {"config", "exited"}
           /\ handler = PyNone
           /\ context = PyNone
           /\ client = PyNone
           /\ cycle = NoCycle
           /\ pc = "exited" => exit_code = PyInt(1)

\* a load that finds no file, cannot execute it, or finds no callable handler
\* ends the process with code 1 before any iteration
C5_LoadFatal ==
    (pc = "load" /\ pc' # "load"
     /\ (\/ file = PyNone
         \/ ModuleExecRaises(file.src)
         \/ ~ModuleHandlerCallable(file.src)))
        => /\ pc' = "exited"
           /\ exit_code' = PyInt(1)
           /\ handler' = PyNone
           /\ cycle' = NoCycle

\* an exited process does nothing more
C5_ExitIsFinal == pc = "exited" => (pc' = "exited" /\ cycle' = cycle /\ store' = store)

\* C5: a missing handler file, a module that fails to load or has no callable
\* handler, an unparsable REDIS_PORT or an unset REDIS_OUTPUT_KEY ends the
\* process with a non-zero code before the loop: no GET, no handler call, no SET.
C5_FatalStartup == []C5_ConfigFatal /\ [][C5_LoadFatal /\ C5_ExitIsFinal]_vars

\* a usable handler file and output key, but REDIS_PORT=63.79
C5_Witness ==
    /\ pc = "exited"
    /\ exit_code = PyInt(1)
    /\ environ = EnvBadPort
    /\ file # PyNone
    /\ ModuleHandlerCallable(file.src)

----------------------------------------------------------------------------
(* C6 *)

C6_MissingSkipped ==
    (GetSucceeds /\ raw_value' = PyNone)
        => /\ pc' = "sleep"
           /\ ~cycle'.called
           /\ cycle'.set_key = PyNone
           /\ store' = store

C6_SleepsAndReadsAgain ==
    (pc = "sleep" /\ pc' # "sleep")
        => (pc' = "get" /\ cycle'.sleeps = <<POLL_INTERVAL_SECONDS>>)

\* C6: an iteration whose GET finds the input key missing, whether it never
\* existed or was deleted after a value had been seen, calls no handler and
\* issues no SET; the loop sleeps and goes back to the GET.
C6_MissingInput == [][C6_MissingSkipped /\ C6_SleepsAndReadsAgain]_vars

\* the key was deleted after {"x": 1} had been processed
C6_Witness ==
    /\ pc = "sleep"
    /\ cycle.outcome = "decode_failed"
    /\ raw_value = PyNone
    /\ payload = PyNone
    /\ handler.src = "echo"
    /\ input_key # output_key
    /\ store[output_key] = RawX1

----------------------------------------------------------------------------
(* C7 *)

\* C7 as claimed: once the context exists and the loop runs, nothing ends the
\* process; it exits only on the startup errors.
C7_ExitsOnlyAtStartup == pc = "exited" => context = PyNone

----------------------------------------------------------------------------
(* C8 *)

C8_UnsetAtStart == (pc = "mtime" /\ pc' = "get") => context'.last_execution = PyNone

\* with distinct keys the output key is empty exactly until the first SET succeeds
C8_UnsetUntilPublish ==
    (InLoop /\ input_key # output_key /\ store[output_key] = PyNone)
        => context.last_execution = PyNone

C8_StampedOnSuccess ==
    SetSucceeds => (context'.last_execution = PyInt(now) /\ now >= cycle.start)

C8_OnlySuccessStamps ==
    (InLoop /\ context' # context)
        => (SetSucceeds /\ context' = [context EXCEPT !.last_execution = PyInt(now)])

\* C8: context.last_execution is None from construction until a SET succeeds,
\* becomes the time read right after every successful SET (not earlier than the
\* time the iteration began), and no other step of the loop changes the context.
C8_LastExecution ==
    /\ []C8_UnsetUntilPublish
    /\ [][C8_UnsetAtStart /\ C8_StampedOnSuccess /\ C8_OnlySuccessStamps]_vars

\* the clock moved during an iteration that published
C8_Witness ==
    /\ pc = "sleep"
    /\ cycle.outcome = "published"
    /\ cycle.start = 0
    /\ context.last_execution = PyInt(1)

----------------------------------------------------------------------------
(* C9 *)

\* C9 as claimed: in every accepted configuration the key of every GET is not
\* the output key, and the key of every SET is the output key and not the
\* input key.
C9_KeyAccess ==
    /\ cycle.get_key # PyNone => cycle.get_key # output_key
    /\ cycle.set_key # PyNone =>
           (cycle.set_key = output_key /\ cycle.set_key # input_key)

----------------------------------------------------------------------------
(* C10 *)

\* past change detection the marker already is the value just read
C10_MarkerAdvanced ==
    (\/ pc \in {"execute", "publish"}
     \/ pc = "sleep" /\ cycle.outcome \in AfterAdvance)
        => last_raw_value = raw_value

\* the marker moves only in a GET that returns a different value
C10_MarkerMovesOnRead ==
    (InLoop /\ last_raw_value' # last_raw_value)
        => (GetSucceeds /\ last_raw_value' = raw_value')

\* a GET that returns the marker again leaves it and does no work
C10_SameValueNoWork ==
    (GetSucceeds /\ raw_value' = last_raw_value)
        => /\ last_raw_value' = last_raw_value
           /\ pc' = "sleep"
           /\ ~cycle'.called
           /\ cycle'.set_key = PyNone

\* the handler is called only in an iteration whose GET returned a new value
C10_WorkOnlyOnChange ==
    (pc = "get" /\ pc' = "execute") => raw_value' # last_raw_value

\* C10: the change marker takes the value read before decode, execute and
\* publish, so after an iteration fails for V the marker is V; every later GET
\* that returns V calls no handler and issues no SET, and the handler runs
\* again only when a GET returns a value different from the marker.
C10_AdvanceOnRead ==
    /\ []C10_MarkerAdvanced
    /\ [][C10_MarkerMovesOnRead /\ C10_SameValueNoWork /\ C10_WorkOnlyOnChange]_vars

\* [1] made the handler raise, was read again, and was skipped
C10_Witness ==
    /\ pc = "sleep"
    /\ cycle.outcome = "unchanged"
    /\ raw_value = RawList
    /\ handler.src = "transform"
    /\ store[output_key] = PyNone

----------------------------------------------------------------------------
(* C11 *)

\* the SET of this iteration failed, the store answers again, and the input
\* that was processed is still under the input key
C11_SetFailed ==
    /\ pc = "sleep"
    /\ cycle.outcome = "set_failed"
    /\ store_up
    /\ store[input_key] = raw_value

C11_Written == pc = "sleep" /\ cycle.outcome = "published"

\* C11 as claimed: after the SET for an input failed, once the store is
\* reachable again the output for that input is written in a following
\* iteration while the input value stays the same (unless the store fails
\* again or the producer replaces the input first).
C11_PublishRetried ==
    C11_SetFailed ~> (C11_Written \/ ~store_up \/ store[input_key] # last_raw_value)

----------------------------------------------------------------------------
(* C12 *)

\* the GET of this step raises
C12_GetFails == pc = "get" /\ pc' # "get" /\ ~store_up

C12_FailedGetIdle ==
    C12_GetFails
        => /\ last_raw_value' = last_raw_value
           /\ context' = context
           /\ store' = store
           /\ ~cycle'.called
           /\ cycle'.set_key = PyNone
           /\ pc' = "sleep"

C12_FailedGetRetries ==
    (pc = "sleep" /\ cycle.outcome = "get_failed" /\ pc' # "sleep")
        => (pc' = "get" /\ cycle'.sleeps = <<POLL_INTERVAL_SECONDS>>)

\* the JSON objects a producer stores
C12_Objects == {v \in RawInputs : IsDict(Call("parse_input", <<v>>))}

\* the loop is at its GET or asleep before it, the store answers, and the
\* input key holds the object v, which is not the marker
C12_Ready(v) ==
    /\ pc \in {"get", "sleep"}
    /\ store_up
    /\ store[input_key] = v
    /\ last_raw_value # v

\* the handler has been called with the object v
C12_Invoked(v) == cycle.called /\ raw_value = v /\ payload = Call("parse_input", <<v>>)

\* C12: a GET that raises leaves the change marker, the context (so
\* last_execution) and the store as they are, calls no handler and issues no
\* SET, and the loop sleeps and issues the GET again; so whenever the store
\* answers while the input key holds a JSON object other than the marker, the
\* handler is eventually called with it, unless the store fails again or the
\* input is replaced first.
C12_GetRetried ==
    /\ [][C12_FailedGetIdle /\ C12_FailedGetRetries]_vars
    /\ \A v \in C12_Objects :
           C12_Ready(v) ~> (C12_Invoked(v) \/ ~store_up \/ store[input_key] # v)

\* a GET failed after {"x": 1} had been published, while {"x":2} was waiting
C12_Witness ==
    /\ pc = "sleep"
    /\ cycle.outcome = "get_failed"
    /\ last_raw_value = RawX1
    /\ store[input_key] = RawX2
    /\ input_key # output_key
    /\ store[output_key] # PyNone
    /\ context.last_execution = PyInt(0)
    /\ now = MaxTime

----------------------------------------------------------------------------
(* C13 *)

\* the ways an iteration ends that go on to the next GET
C13_Paths ==
    {"get_failed", "unchanged", "decode_failed", "handler_raised", "bad_result",
     "encode_failed", "set_failed", "published"}

\* a GET is the first one or follows one sleep of the poll interval
C13_SleptBeforeGet ==
    pc = "get" => (cycle = NoCycle \/ cycle.sleeps = <<POLL_INTERVAL_SECONDS>>)

\* an iteration under way has not slept
C13_NoEarlySleep ==
    pc \in {"execute", "publish", "sleep"} => cycle.sleeps = <<>>

\* every way an iteration ends leads to the sleep, and only the sleep leads
\* to a GET
C13_PathsEndAsleep ==
    /\ (InLoop /\ pc' = "get" /\ pc' # pc) => pc = "sleep"
    /\ (pc = "get" /\ pc' # pc) => pc' \in {"sleep", "execute"}
    /\ (pc = "sleep" /\ pc' # pc) => pc' = "get"
    /\ (InLoop /\ pc # "sleep" /\ cycle'.outcome \in C13_Paths) => pc' = "sleep"
    /\ (pc' = "sleep" /\ pc' # pc) => cycle'.outcome \in C13_Paths

\* C13: whichever way an iteration ends (GET failure, unchanged value, decode
\* failure, handler failure, bad result, publish success, publish failure) the
\* loop sleeps once, for POLL_INTERVAL_SECONDS, and then issues the next GET;
\* no GET follows another without that sleep and no iteration sleeps twice.
C13_Pacing ==
    /\ [](C13_SleptBeforeGet /\ C13_NoEarlySleep)
    /\ [][C13_PathsEndAsleep]_vars

\* the GET after an iteration that published and slept
C13_Witness ==
    /\ pc = "get"
    /\ cycle.sleeps = <<POLL_INTERVAL_SECONDS>>
    /\ context.last_execution # PyNone
    /\ store[output_key] # PyNone
    /\ last_raw_value = RawX1

----------------------------------------------------------------------------
(* C14 *)

\* C14 as claimed: the handler is called only with a payload that is a dict;
\* an input that is JSON but not an object never reaches it.
C14_PayloadIsMapping == (pc = "execute" \/ cycle.called) => IsDict(payload)

----------------------------------------------------------------------------
(* C15 *)

\* the handler is assigned by the one load at startup and by nothing else
C15_LoadedOnce ==
    /\ handler' # handler => (pc = "load" /\ pc' = "mtime" /\ handler = PyNone)
    /\ InLoop => handler' = handler

\* every call is a call of the loaded handler, whatever the file holds now
C15_CallsLoadedHandler ==
    /\ HandlerCalled =>
           /\ cycle'.called
           /\ Call("HandlerCall", <<handler.src, payload>>).kind = "return" => pc' # "exited"
           /\ pc' = "exited" <=> Call("HandlerCall", <<handler.src, payload>>).kind = "abort"
    /\ (HandlerCalled /\ pc' = "publish") =>
           result' = Call("HandlerCall", <<handler.src, payload>>).val

\* the loop leaves every field of the context but last_execution as it was
C15_ContextFrame ==
    InLoop =>
        /\ context'.host = context.host
        /\ context'.port = context.port
        /\ context'.input_key = context.input_key
        /\ context'.output_key = context.output_key
        /\ context'.function_getmtime = context.function_getmtime
        /\ context'.env = context.env

\* C15: the handler is loaded once, at startup, and every iteration calls
\* that same callable even after the handler file has been replaced; the loop
\* never changes the context fields host, port, input_key, output_key,
\* function_getmtime and env.
C15_LoadOnce == [][C15_LoadedOnce /\ C15_CallsLoadedHandler /\ C15_ContextFrame]_vars

\* the file was replaced after the load; the output is that of the loaded handler
C15_Witness ==
    /\ pc = "sleep"
    /\ cycle.outcome = "published"
    /\ handler.src = "transform"
    /\ file.src = UpdatedModule
    /\ file.mtime > context.function_getmtime
    /\ raw_value = RawX1
    /\ result = Call("HandlerCall", <<"transform", Call("parse_input", <<RawX1>>)>>).val
    /\ result # Call("HandlerCall", <<UpdatedModule, Call("parse_input", <<RawX1>>)>>).val

----------------------------------------------------------------------------
(* C16 *)

\* C16 as claimed: the modification time in the context is that of the file
\* version whose handler was loaded, however an external writer interleaves
\* with startup.
C16_MtimeOfLoadedVersion ==
    context # PyNone => context.function_getmtime = handler.mtime

----------------------------------------------------------------------------
(* C19 *)

C19_BadConfig == output_key = PyNone \/ ~PyIntParse(port_str.s).ok

\* with a bad configuration the process exits from the configuration step
C19_ExitsFirst ==
    (pc = "config" /\ C19_BadConfig /\ pc' # pc) => (pc' = "exited" /\ usermodule' = PyNone)

\* with a bad configuration no user code has run and there is no client
C19_NothingLoaded ==
    C19_BadConfig =>
        /\ pc \in {"config", "exited"}
        /\ usermodule = PyNone
        /\ handler = PyNone
        /\ client = PyNone

\* C19: when REDIS_OUTPUT_KEY is unset or REDIS_PORT is not an integer the
\* process exits before load_user_handler runs: the user module is never
\* executed and no store client is created.
C19_ValidatedBeforeLoad == []C19_NothingLoaded /\ [][C19_ExitsFirst]_vars

\* the port was rejected; the module in the file, whose top level would raise,
\* was not executed
C19_Witness ==
    /\ pc = "exited"
    /\ environ = EnvEmptyPort
    /\ file # PyNone
    /\ file.src = "broken"
    /\ usermodule = PyNone
    /\ client = PyNone

----------------------------------------------------------------------------
(* C20 *)

\* On a static input the first GET that returns a value moves the marker off
\* None, to that value; a handler call in a later iteration would start from
\* a marker that is not None.
C20_CalledAtMostOnce == (pc = "get" /\ pc' = "execute") => last_raw_value = PyNone

\* a SET is issued only in the iteration of a handler call, once
C20_SetAtMostOnce ==
    (pc = "publish" /\ pc' # pc) =>
        (cycle.called /\ cycle.set_key = PyNone /\ last_raw_value = raw_value)

\* C20 as claimed: with no producer writing after the start, in every accepted
\* configuration the handler is called at most once and at most one SET is
\* issued, whatever GETs and SETs fail on the way; the runtime's own write
\* never leads to another handler call.
C20_Quiescence == [][C20_CalledAtMostOnce /\ C20_SetAtMostOnce]_vars

----------------------------------------------------------------------------
(* C17 *)

\* the step that ends a run of the dashboard's main(): from the GET of
\* read_metrics_from_redis, on the store as it is then, to the return
C17_Refresh == dash'.runs = dash.runs + 1

\* the three cases: the key is missing, the read fails, the stored value is
\* not parseable JSON (not UTF-8 text, or text that json.loads rejects)
C17_KeyMissing == store_up /\ store[DashKey] = PyNone

C17_ReadFails == ~store_up

C17_NotJson ==
    /\ store_up
    /\ store[DashKey] # PyNone
    /\ \/ ~Utf8Decode(store[DashKey].y).ok
       \/ ~Call("Loads", <<Utf8Decode(store[DashKey].y).val.s>>).ok

\* C17: on every refresh in which the output key is missing, the store read
\* fails, or the stored value is not parseable JSON, read_metrics_from_redis
\* returns None, the dashboard shows its warning and returns without raising,
\* and nothing is appended to the metric histories.
C17_ConsumerTolerance ==
    [][(C17_Refresh /\ (C17_KeyMissing \/ C17_ReadFails \/ C17_NotJson)) =>
           /\ DashRun.data = PyNone
           /\ dash'.data = PyNone
           /\ dash'.shown = "warning"
           /\ session_state' = session_state
           /\ dash_log' = dash_log]_vars

\* every refresh ended in the warning, the last one on a value that is not
\* JSON, read from a store that answered the PING and the GET, on top of
\* histories that already hold points
C17_Witness ==
    /\ dash.runs = MaxRefreshes
    /\ dash.at = "start"
    /\ dash.shown = "warning"
    /\ dash.conn_ok
    /\ store_up
    /\ store[DashKey] = RawTruncated
    /\ session_state = SessionAfter(HISTORY_LIMIT)

----------------------------------------------------------------------------
(* C18 *)

\* the series stored under a key, empty when there is none yet
C18_Series(state, name, key) == MapGet(MapGet(state, name, EmptyMap), key, <<>>)

C18_AllSeries ==
    {<<"history", key>> : key \in HistoryKeys} \cup {<<"history_multi", "cpu_multi">>}

\* every series holds at most 500 points, and they are the last points of
\* everything that was ever appended to it, in the order of the appends
C18_LatestInOrder ==
    \A nk \in C18_AllSeries :
        LET history == C18_Series(session_state, nk[1], nk[2])
            appended == C18_Series(dash_log, nk[1], nk[2])
            dropped == IF Len(appended) > HISTORY_LIMIT
                       THEN Len(appended) - HISTORY_LIMIT ELSE 0
        IN  /\ Len(history) <= HISTORY_LIMIT
            /\ Len(history) = Len(appended) - dropped
            /\ \A i \in 1..Len(history) : history[i] = appended[i + dropped]

\* the update calls of a refresh whose value is None, or whose values
\* mapping is empty, leave their series as it was
C18_NoneIsNoAppend ==
    (dash'.runs = dash.runs + 1 /\ dash'.shown = "metrics") =>
        /\ \A key \in HistoryKeys :
              dash'.metrics[key] = PyNone =>
                  C18_Series(session_state', "history", key)
                      = C18_Series(session_state, "history", key)
        /\ dash'.metrics.cpu_multi = <<>> =>
              C18_Series(session_state', "history_multi", "cpu_multi")
                  = C18_Series(session_state, "history_multi", "cpu_multi")

\* C18: after any sequence of update_history and update_multi_history calls
\* every stored series holds at most 500 points, the most recently appended
\* ones in append order; a call with a None value, or with an empty values
\* mapping, leaves the series unchanged.
C18_HistoryBound == []C18_LatestInOrder /\ [][C18_NoneIsNoAppend]_vars

\* a full series took two more points and lost its two oldest, while the
\* series whose value was None in the last refresh kept the 500 points it
\* had: the point the refresh before appended, read from the payload of the
\* seeding script, is still its latest
C18_Witness ==
    /\ dash.shown = "metrics"
    /\ dash.metrics.memory_cache = PyNone
    /\ Len(C18_Series(dash_log, "history", "network_egress")) = HISTORY_LIMIT + 2
    /\ Len(C18_Series(session_state, "history", "network_egress")) = HISTORY_LIMIT
    /\ C18_Series(session_state, "history", "network_egress")[1].ts = 3 - HISTORY_LIMIT
    /\ Len(C18_Series(dash_log, "history", "memory_cache")) = HISTORY_LIMIT + 1
    /\ Len(C18_Series(session_state, "history", "memory_cache")) = HISTORY_LIMIT
    /\ C18_Series(session_state, "history", "memory_cache")[HISTORY_LIMIT]
           = [ts |-> 1, value |-> Call("FloatOfInt", <<100>>)]
    /\ Len(C18_Series(session_state, "history_multi", "cpu_multi")) = HISTORY_LIMIT

====
